---------------------------- MODULE Spec2Model ----------------------------
(***************************************************************************)
(* The habit-series pipeline: the use case createHabitSeries (three AI     *)
(* passes, parse, validateAIOutput, entity construction, persistence, the  *)
(* user-state update) and the manual output validator.                     *)
(*                                                                         *)
(* Spec           the use case as a state machine, one step per stretch of *)
(*                code between two awaits.                                 *)
(* SpecValidator  validateAIOutput applied to a bounded family of          *)
(*                candidate values.                                        *)
(* SpecRouter     calls on an AIProviderRouter, for a bounded family of    *)
(*                model identifiers.                                       *)
(* SpecPolicy     isHabitSeriesFinal applied to a bounded family of        *)
(*                identifiers.                                             *)
(* SpecConcurrent two invocations of the use case on one router, resumed   *)
(*                in any order at their awaits.                            *)
(* SpecAdapter    one call of GeminiAdapter.callAI, from the messages to   *)
(*                the end of its generateContent request.                  *)
(* SpecEnergy     calculateGeminiEnergy applied to a bounded family of     *)
(*                texts.                                                   *)
(* SpecPrompt     CreativeHabitSeriesPrompt called on a bounded family of  *)
(*                arguments.                                               *)
(* SpecEntity     HabitSeries.fromAIOutput and toDTO on a bounded family   *)
(*                of ids and AI outputs.                                   *)
(* SpecFair       Spec with every awaited collaborator call settling in    *)
(*                the end.                                                 *)
(***************************************************************************)
EXTENDS Integers, Sequences, FiniteSets, TLC

VARIABLES
    pc,            \* position of the running invocation of createHabitSeries
    inv,           \* number of invocations started so far
    userId,        \* the userId argument of the running invocation
    payload,       \* the payload argument of the running invocation
    deps,          \* the deps argument: which collaborators are present
    trace,         \* calls made and awaited results received by the invocation
    parsed,        \* the local `parsed` (line 331)
    persisted,     \* the local `persisted` (line 352)
    outcome,       \* how the invocation ended: returned value or thrown error
    store,         \* what the artifact repository holds
    activeSeries,  \* the user-state counter behind incrementActiveSeries
    vdata,         \* SpecValidator: the candidate handed to validateAIOutput
    vresult,       \* SpecValidator: what validateAIOutput returned for it
    vlog,          \* SpecValidator: the calls of validateAIOutput, in order
    models,        \* the model each pass is configured with (getModelConfig)
    vendor,        \* the calls the router has delegated to an adapter
    rcall,         \* SpecRouter: the call made on the AIProviderRouter
    rresult,       \* SpecRouter: what that call returned or threw
    router,        \* the fields of the AIProviderRouter (lines 629-630)
    rlog,          \* SpecRouter: the resolutions of getAdapterForModel, in order
    ptype,         \* SpecPolicy: the functionType handed to isHabitSeriesFinal
    pfinal,        \* SpecPolicy: what isHabitSeriesFinal returned for it
    acaller,       \* SpecAdapter: the caller's payload and message array
    acall,         \* SpecAdapter: the call made on GeminiAdapter.callAI
    apc,           \* SpecAdapter: position of that call
    alog,          \* SpecAdapter: the generateContent requests and their ends
    aresult,       \* SpecAdapter: what callAI returned or threw
    ecall,         \* SpecEnergy: the texts calculateGeminiEnergy was called with
    eresult,       \* SpecEnergy: what it logged and returned
    parked,        \* SpecConcurrent: the locals of the invocation not running
    bargs,         \* SpecPrompt: the caller's argument of CreativeHabitSeriesPrompt
    blog,          \* SpecPrompt: the calls of the builder and what they returned
    hinput,        \* SpecEntity: the caller's id and AI output
    hentity,       \* SpecEntity: what HabitSeries.fromAIOutput returned or threw
    hdto           \* SpecEntity: what toDTO returned for that entity

validatorVars == <<vdata, vresult, vlog>>
routerVars == <<rcall, rresult, router, rlog>>
policyVars == <<ptype, pfinal>>
adapterVars == <<acaller, acall, apc, alog, aresult>>
energyVars == <<ecall, eresult>>
builderVars == <<bargs, blog>>
entityVars == <<hinput, hentity, hdto>>
unitVars == <<builderVars, entityVars>>
restVars == <<adapterVars, energyVars, parked, unitVars>>

vars == <<pc, inv, userId, payload, deps, trace, parsed, persisted, outcome,
          store, activeSeries, models, vendor, validatorVars, routerVars,
          policyVars, restVars>>

---------------------------------------------------------------------------
(* Bounds of the model.                                                    *)

\* longest actions array among the validator's candidates
MaxActions == 6
\* invocations of createHabitSeries in one behaviour
MaxInvocations == 2
\* calls of validateAIOutput on one candidate
MaxValidations == 2
\* resolutions of getAdapterForModel on one router
MaxResolutions == 2
\* longest text, in characters, among the short texts of the energy accounting
MaxShortText == 20
\* longest message array handed to GeminiAdapter.callAI by another caller
MaxMessages == 2

\* the users that call the endpoint
Users == {"u1", "u2"}

---------------------------------------------------------------------------
(* JavaScript values.  A string is the tuple of its characters; the text   *)
(* an AI pass returns is kept as a whole (field `text`) and only           *)
(* JSON.parse looks inside it.                                             *)

Undefined == [t |-> "undefined"]
Null == [t |-> "null"]
Num(n) == [t |-> "number", v |-> n]
Str(s) == [t |-> "string", v |-> s]
Text(s) == [t |-> "string", text |-> s]
Arr(s) == [t |-> "array", v |-> s]
Obj(f) == [t |-> "object", v |-> f]

\* typeof x
TypeOf(x) ==
    IF x.t \in {"null", "array", "object"} THEN "object" ELSE x.t

\* the truthiness `!x` negates
Truthy(x) ==
    CASE x.t = "undefined" -> FALSE
      [] x.t = "null" -> FALSE
      [] x.t = "number" -> x.v # 0
      [] x.t = "string" -> IF "text" \in DOMAIN x THEN x.text # "" ELSE Len(x.v) > 0
      [] OTHER -> TRUE

\* x.k for a property k that is no array index and no built-in
Get(x, k) ==
    IF x.t = "object" /\ k \in DOMAIN x.v THEN x.v[k] ELSE Undefined

\* Array.isArray(x)
IsArray(x) == x.t = "array"

\* the characters String.prototype.trim strips (those the model uses)
Whitespace == {" ", "\t", "\n"}

RECURSIVE TrimStart(_)
TrimStart(s) ==
    IF s = <<>> \/ Head(s) \notin Whitespace THEN s ELSE TrimStart(Tail(s))

RECURSIVE TrimEnd(_)
TrimEnd(s) ==
    IF s = <<>> \/ s[Len(s)] \notin Whitespace THEN s
    ELSE TrimEnd(SubSeq(s, 1, Len(s) - 1))

\* x.trim() for a string x
Trim(x) == Str(TrimEnd(TrimStart(x.v)))

---------------------------------------------------------------------------
(* validateAIOutput (lines 216-254).                                       *)

Valid == [valid |-> TRUE]
Invalid(msg) == [valid |-> FALSE, error |-> msg]

\* typeof x !== 'string' || !x.trim()
BadString(x) == TypeOf(x) # "string" \/ ~Truthy(Trim(x))

\* CheckActions with the description examined before the name
RECURSIVE CheckActionsDescriptionFirst(_, _)
CheckActionsDescriptionFirst(actions, i) ==
    IF ~(i < Len(actions)) THEN Valid
    ELSE LET action == actions[i + 1]
             at == "actions[" \o ToString(i) \o "]"
         IN  IF ~Truthy(action) \/ TypeOf(action) # "object"
                 THEN Invalid(at \o " is not an object")
             ELSE IF BadString(Get(action, "description"))
                 THEN Invalid(at \o ".description invalid")
             ELSE IF BadString(Get(action, "name"))
                 THEN Invalid(at \o ".name invalid")
             ELSE IF BadString(Get(action, "difficulty"))
                 THEN Invalid(at \o ".difficulty invalid")
             ELSE CheckActionsDescriptionFirst(actions, i + 1)

\* the loop of lines 237-251, from index i (0-based) on
RECURSIVE CheckActions(_, _)
CheckActions(actions, i) ==
    IF ~(i < Len(actions)) THEN Valid
    ELSE LET action == actions[i + 1]
             at == "actions[" \o ToString(i) \o "]"
         IN  IF ~Truthy(action) \/ TypeOf(action) # "object"
                 THEN Invalid(at \o " is not an object")
             ELSE IF BadString(Get(action, "name"))
                 THEN Invalid(at \o ".name invalid")
             ELSE IF BadString(Get(action, "description"))
                 THEN Invalid(at \o ".description invalid")
             ELSE IF BadString(Get(action, "difficulty"))
                 THEN Invalid(at \o ".difficulty invalid")
             ELSE CheckActions(actions, i + 1)

\* validateAIOutput with the upper bound of the length one too high
validateAIOutputUpTo6(data) ==
    IF ~Truthy(data) \/ TypeOf(data) # "object"
        THEN Invalid("Output is not an object")
    ELSE IF BadString(Get(data, "title"))
        THEN Invalid("Invalid or missing title")
    ELSE IF BadString(Get(data, "description"))
        THEN Invalid("Invalid or missing description")
    ELSE IF ~IsArray(Get(data, "actions"))
        THEN Invalid("actions must be an array")
    ELSE IF Len(Get(data, "actions").v) < 3 \/ Len(Get(data, "actions").v) > 6
        THEN Invalid("actions length out of bounds")
    ELSE CheckActions(Get(data, "actions").v, 0)

validateAIOutput(data) ==
    IF ~Truthy(data) \/ TypeOf(data) # "object"
        THEN Invalid("Output is not an object")
    ELSE IF BadString(Get(data, "title"))
        THEN Invalid("Invalid or missing title")
    ELSE IF BadString(Get(data, "description"))
        THEN Invalid("Invalid or missing description")
    ELSE IF ~IsArray(Get(data, "actions"))
        THEN Invalid("actions must be an array")
    ELSE IF Len(Get(data, "actions").v) < 3 \/ Len(Get(data, "actions").v) > 5
        THEN Invalid("actions length out of bounds")
    ELSE CheckActions(Get(data, "actions").v, 0)

---------------------------------------------------------------------------
(* The candidates SpecValidator hands to validateAIOutput.  A field given  *)
(* as Undefined is a property the object does not have.                    *)

\* an object literal with the given properties, the undefined ones left out
MkObj(fields) ==
    Obj([k \in {f \in DOMAIN fields : fields[f].t # "undefined"} |-> fields[k]])

MkSeries(title, description, actions) ==
    MkObj([title |-> title, description |-> description, actions |-> actions])

MkAction(name, description, difficulty) ==
    MkObj([name |-> name, description |-> description, difficulty |-> difficulty])

\* the Difficulty enumeration the creative prompt reads its labels from
\* (lines 1 and 42-44)
Difficulty ==
    [LOW |-> Str(<<"l", "o", "w">>),
     MEDIUM |-> Str(<<"m", "e", "d", "i", "u", "m">>),
     HIGH |-> Str(<<"h", "i", "g", "h">>)]

GoodAction == MkAction(Str(<<"n">>), Str(<<"d">>), Difficulty.LOW)

\* an action whose difficulty is a label the enumeration does not have
EpicAction == MkAction(Str(<<"n">>), Str(<<"d">>), Str(<<"e", "p", "i", "c">>))

\* the shapes one element of actions takes
ActionShapes ==
    << Null,
       Num(3),
       MkAction(Undefined, Str(<<" ">>), Num(2)),
       MkAction(Str(<<"n">>), Str(<<"\t", " ">>), Str(<<>>)),
       MkAction(Str(<<" ", "n">>), Str(<<"d", " ">>), Undefined),
       GoodAction >>

TitleShapes ==
    <<Undefined, Num(5), Str(<<>>), Str(<<" ", " ">>), Str(<<"T">>)>>

DescriptionShapes == <<Undefined, Str(<<"\n">>), Str(<<"D">>)>>

\* values of actions that go with the ill-formed titles and descriptions
FewActions ==
    << Undefined,
       Str(<<"a", "b", "c">>),
       MkObj([length |-> Num(3)]),
       Arr(<<Null, GoodAction>>),
       Arr(<<GoodAction, GoodAction, GoodAction>>),
       Arr(<<GoodAction, Num(3), Null, GoodAction>>),
       Arr(<<GoodAction, EpicAction, GoodAction>>),
       Arr(<<GoodAction, GoodAction, GoodAction, GoodAction, GoodAction, Null>>) >>

\* candidates that are no series object
OtherValues ==
    <<Undefined, Null, Num(0), Num(7), Str(<<>>), Str(<<"x">>), Arr(<<>>),
      Arr(<<GoodAction, GoodAction, GoodAction>>)>>

\* the array whose i-th element has the shape numbered f[i]
ArrayOfShapes(f) == Arr([i \in DOMAIN f |-> ActionShapes[f[i]]])

\* d is one of the candidates: any value of OtherValues, a series with a
\* well-formed title and description and any array of at most MaxActions
\* shapes, or a series with any title, description and value of FewActions
IsCandidate(d) ==
    \/ \E i \in DOMAIN OtherValues : d = OtherValues[i]
    \/ \E k \in 0..MaxActions : \E f \in [1..k -> DOMAIN ActionShapes] :
          d = MkSeries(Str(<<"T">>), Str(<<"D">>), ArrayOfShapes(f))
    \/ \E i \in DOMAIN TitleShapes, j \in DOMAIN DescriptionShapes,
          k \in DOMAIN FewActions :
          d = MkSeries(TitleShapes[i], DescriptionShapes[j], FewActions[k])

---------------------------------------------------------------------------
(* AIProviderRouter (lines 626-690).  A model identifier that is a string  *)
(* is kept whole (Text); startsWith looks at its first characters.         *)

Error(msg) == [class |-> "Error", message |-> msg]

\* s.startsWith(p)
startsWith(s, p) == Len(p) =< Len(s) /\ SubSeq(s, 1, Len(p)) = p

OpenAIAdapter == "openaiAdapter"
GeminiAdapter == "geminiAdapter"

\* the two errors of getAdapterForModel; the second message ends with the
\* three prefixes, written here without their quotation marks
InvalidModel == Error("INVALID_MODEL: Model name is required")
UnknownModelProvider(model) ==
    Error("UNKNOWN_MODEL_PROVIDER: No adapter configured for model \""
          \o model.text \o "\". Expected prefix: gpt-, o1-, or gemini-")

\* getAdapterForModel that takes o1 without its hyphen for the OpenAI prefix
getAdapterForModelLoosePrefix(model) ==
    IF ~Truthy(model) \/ TypeOf(model) # "string"
        THEN [ok |-> FALSE, error |-> InvalidModel]
    ELSE IF startsWith(model.text, "gpt-") \/ startsWith(model.text, "o1")
        THEN [ok |-> TRUE, adapter |-> router.openaiAdapter]
    ELSE IF startsWith(model.text, "gemini-")
        THEN [ok |-> TRUE, adapter |-> router.geminiAdapter]
    ELSE [ok |-> FALSE, error |-> UnknownModelProvider(model)]

\* lines 639-661: the adapter, or the error thrown
getAdapterForModel(model) ==
    IF ~Truthy(model) \/ TypeOf(model) # "string"
        THEN [ok |-> FALSE, error |-> InvalidModel]
    ELSE IF startsWith(model.text, "gpt-") \/ startsWith(model.text, "o1-")
        THEN [ok |-> TRUE, adapter |-> router.openaiAdapter]
    ELSE IF startsWith(model.text, "gemini-")
        THEN [ok |-> TRUE, adapter |-> router.geminiAdapter]
    ELSE [ok |-> FALSE, error |-> UnknownModelProvider(model)]

\* const { model = 'gemini-2.5-flash' } = options, options = {} when the
\* argument is left out (lines 669-670)
DefaultModel == Text("gemini-2.5-flash")
ModelOf(options) ==
    IF Get(options, "model").t = "undefined" THEN DefaultModel
    ELSE Get(options, "model")

\* a call handed to an adapter
Delegated(adapter, op, arg) == [adapter |-> adapter, op |-> op, arg |-> arg]

\* callAI that hands a model no family claims to the Gemini adapter
callAIFallsBack(options) ==
    LET resolved == getAdapterForModel(ModelOf(options))
    IN  IF resolved.ok
            THEN [ok |-> TRUE,
                  delegated |-> Delegated(resolved.adapter, "callAI", options)]
        ELSE [ok |-> TRUE,
              delegated |-> Delegated(router.geminiAdapter, "callAI", options)]

\* lines 669-673: the call handed to the resolved adapter, or the error of
\* getAdapterForModel
callAI(options) ==
    LET resolved == getAdapterForModel(ModelOf(options))
    IN  IF resolved.ok
            THEN [ok |-> TRUE,
                  delegated |-> Delegated(resolved.adapter, "callAI", options)]
        ELSE [ok |-> FALSE, error |-> resolved.error]

\* lines 685-689: always handed to the Gemini adapter
callAIWithFunctionType(functionType) ==
    [ok |-> TRUE,
     delegated |-> Delegated(router.geminiAdapter, "callAIWithFunctionType",
                             functionType)]

\* The model identifiers the router is asked about: a beginning followed by
\* an ending, and values that are no string.
ModelBeginnings ==
    {"gpt-", "o1-", "gemini-", "GPT-", "O1-", "Gemini-", "gpt", "o1", "gemini",
     " gpt-", "mistral-", "claude-", ""}
ModelEndings ==
    {"", "4", "4o-mini", "preview", "pro", "2.5-flash", "2.5-pro", "large", "3"}
ModelIds ==
    {Text(b \o e) : b \in ModelBeginnings, e \in ModelEndings}
    \cup {Undefined, Null, Num(0), Num(4)}

\* the options callAI is called with: left out, or an object with or
\* without a model
RouterOptions == {MkObj([model |-> m]) : m \in ModelIds}

---------------------------------------------------------------------------
(* SpecValidator: validateAIOutput called on one candidate, and called     *)
(* again on it.                                                            *)

NotCalled == [called |-> FALSE]

\* no invocation of createHabitSeries has started
Idle ==
    /\ pc = "idle" /\ inv = 0
    /\ userId = "none" /\ payload = Undefined /\ deps = {}
    /\ trace = <<>> /\ parsed = Undefined /\ persisted = Undefined
    /\ outcome = [kind |-> "none"]
    /\ store = {} /\ activeSeries = [u \in Users |-> 0]
    /\ vendor = <<>>

\* validateAIOutput, the router, isHabitSeriesFinal have not been called
ValidatorIdle == vdata = Undefined /\ vresult = NotCalled /\ vlog = <<>>
RouterIdle ==
    /\ rcall = NotCalled /\ rresult = NotCalled
    /\ router = [geminiAdapter |-> GeminiAdapter, openaiAdapter |-> OpenAIAdapter]
    /\ rlog = <<>>
PolicyIdle == ptype = "none" /\ pfinal = NotCalled

\* the locals of an invocation that has not started
IdleLocals ==
    [pc |-> "idle", userId |-> "none", payload |-> Undefined, deps |-> {},
     trace |-> <<>>, parsed |-> Undefined, persisted |-> Undefined,
     outcome |-> [kind |-> "none"], vendor |-> <<>>]

\* GeminiAdapter.callAI and calculateGeminiEnergy have not been called, and
\* no second invocation exists
AdapterIdle ==
    /\ acall = NotCalled /\ apc = "idle" /\ alog = <<>>
    /\ aresult = [kind |-> "none"]
EnergyIdle == ecall = NotCalled /\ eresult = NotCalled

\* CreativeHabitSeriesPrompt and HabitSeries.fromAIOutput have not been
\* called
BuilderIdle ==
    /\ bargs = [language |-> "", assistantContext |-> "", testData |-> <<>>]
    /\ blog = <<>>
EntityIdle ==
    /\ hinput = [id |-> "", input |-> Undefined]
    /\ hentity = NotCalled /\ hdto = NotCalled
UnitIdle == BuilderIdle /\ EntityIdle

RestIdle ==
    /\ acaller = [payload |-> Undefined, messages |-> Undefined]
    /\ AdapterIdle
    /\ EnergyIdle
    /\ parked = IdleLocals
    /\ UnitIdle

\* the policies with the normalization pass given a model no family claims
PolicyModelsUnclaimed ==
    [habit_series_creative |-> Text("gemini-2.5-flash"),
     habit_series_structure |-> Text("gemini-2.5-pro"),
     json_conversion |-> Text("claude-3")]

\* the models of HABIT_SERIES_AI_POLICIES (PublicHabitSeriesPolicy.js,
\* lines 70-125)
PolicyModels ==
    [habit_series_creative |-> Text("gemini-2.5-flash"),
     habit_series_structure |-> Text("gemini-2.5-pro"),
     json_conversion |-> Text("gpt-4o-mini")]

\* a number written with one decimal: 0.8 is Tenths(8)
Tenths(n) == [t |-> "number", tenths |-> n]

\* the policies with a structure pass generated at temperature 0.3
PoliciesWarmStructure ==
    [habit_series_creative |->
        MkObj([model |-> PolicyModels.habit_series_creative,
               temperature |-> Tenths(8), maxTokens |-> Num(1500)]),
     habit_series_structure |->
        MkObj([model |-> PolicyModels.habit_series_structure,
               temperature |-> Tenths(3), maxTokens |-> Num(1500)]),
     json_conversion |->
        MkObj([model |-> PolicyModels.json_conversion,
               temperature |-> Tenths(0), maxTokens |-> Num(1500),
               forceJson |-> [t |-> "boolean", v |-> TRUE]])]

\* HABIT_SERIES_AI_POLICIES (lines 70-125): what each pass is generated with
HABIT_SERIES_AI_POLICIES ==
    [habit_series_creative |->
        MkObj([model |-> PolicyModels.habit_series_creative,
               temperature |-> Tenths(8), maxTokens |-> Num(1500)]),
     habit_series_structure |->
        MkObj([model |-> PolicyModels.habit_series_structure,
               temperature |-> Tenths(0), maxTokens |-> Num(1500)]),
     json_conversion |->
        MkObj([model |-> PolicyModels.json_conversion,
               temperature |-> Tenths(0), maxTokens |-> Num(1500),
               forceJson |-> [t |-> "boolean", v |-> TRUE]])]

\* getHabitSeriesAIConfig(functionType) (lines 136-138): the entry of the
\* table, undefined for a key the table lacks
getHabitSeriesAIConfig(functionType) ==
    IF functionType \in DOMAIN HABIT_SERIES_AI_POLICIES
        THEN HABIT_SERIES_AI_POLICIES[functionType]
    ELSE Undefined

InitValidator ==
    /\ Idle
    /\ models = PolicyModels
    /\ IsCandidate(vdata)
    /\ vresult = NotCalled
    /\ vlog = <<>>
    /\ RouterIdle
    /\ PolicyIdle
    /\ RestIdle

\* CallValidator with an assignment data.title = data.title.trim() in the
\* validator
CallValidatorTrimsInPlace ==
    /\ Len(vlog) < MaxValidations
    /\ vresult' = validateAIOutput(vdata)
    /\ vlog' = Append(vlog, [data |-> vdata, result |-> validateAIOutput(vdata)])
    /\ vdata' = IF vdata.t = "object" /\ TypeOf(Get(vdata, "title")) = "string"
                   THEN Obj([vdata.v EXCEPT !.title = Trim(@)])
                ELSE vdata
    /\ UNCHANGED <<pc, inv, userId, payload, deps, trace, parsed, persisted,
                   outcome, store, activeSeries, models, vendor, routerVars,
                   policyVars, restVars>>

\* one call of validateAIOutput(data): it reads data and assigns nothing
CallValidator ==
    /\ Len(vlog) < MaxValidations
    /\ vresult' = validateAIOutput(vdata)
    /\ vlog' = Append(vlog, [data |-> vdata, result |-> validateAIOutput(vdata)])
    /\ vdata' = vdata
    /\ UNCHANGED <<pc, inv, userId, payload, deps, trace, parsed, persisted,
                   outcome, store, activeSeries, models, vendor, routerVars,
                   policyVars, restVars>>

NextValidator == CallValidator

SpecValidator == InitValidator /\ [][NextValidator]_vars

---------------------------------------------------------------------------
(* SpecRouter: one call on an AIProviderRouter.                            *)

InitRouter ==
    /\ Idle
    /\ models = PolicyModels
    /\ ValidatorIdle
    /\ RouterIdle
    /\ PolicyIdle
    /\ RestIdle

Called(op, arg) == [called |-> TRUE, op |-> op, arg |-> arg]

\* what the use case and the other specifications leave alone
useCaseVars ==
    <<pc, inv, userId, payload, deps, trace, parsed, persisted, outcome, store,
      activeSeries, models>>

\* the identifiers a router that has resolved one identifier is asked next
LaterModelIds ==
    {Text("gpt-4o-mini"), Text("o1-preview"), Text("gemini-2.5-flash"),
     Text("gemini-2.5-pro"), Text("GPT-4"), Text("mistral-large"), Text(""), Null}

\* getAdapterForModel on a router that keeps the adapter it resolved first
GetAdapterForModelCached(model) ==
    LET result == IF "cached" \in DOMAIN router THEN router.cached
                  ELSE getAdapterForModel(model)
    IN  /\ Len(rlog) < MaxResolutions
        /\ \/ rcall = NotCalled
           \/ rlog # <<>> /\ model \in LaterModelIds
        /\ rcall' = Called("getAdapterForModel", model)
        /\ rresult' = result
        /\ rlog' = Append(rlog, [arg |-> model, result |-> result])
        /\ router' = [geminiAdapter |-> router.geminiAdapter,
                      openaiAdapter |-> router.openaiAdapter,
                      cached |-> result]
        /\ UNCHANGED <<useCaseVars, vendor, validatorVars, policyVars, restVars>>

\* router.getAdapterForModel(model), on a fresh router or on one that has
\* resolved identifiers before: no field of the router is assigned
GetAdapterForModel(model) ==
    /\ Len(rlog) < MaxResolutions
    /\ \/ rcall = NotCalled
       \/ rlog # <<>> /\ model \in LaterModelIds
    /\ rcall' = Called("getAdapterForModel", model)
    /\ rresult' = getAdapterForModel(model)
    /\ rlog' = Append(rlog, [arg |-> model, result |-> getAdapterForModel(model)])
    /\ router' = router
    /\ UNCHANGED <<useCaseVars, vendor, validatorVars, policyVars, restVars>>

\* router.callAI(userId, messages, options)
RouterCallAI(options) ==
    /\ rcall = NotCalled
    /\ rcall' = Called("callAI", options)
    /\ rresult' = callAI(options)
    /\ vendor' = IF callAI(options).ok
                    THEN Append(vendor, callAI(options).delegated)
                 ELSE vendor
    /\ UNCHANGED <<useCaseVars, validatorVars, policyVars, router, rlog, restVars>>

\* router.callAIWithFunctionType(userId, messages, functionType)
RouterCallAIWithFunctionType(functionType) ==
    /\ rcall = NotCalled
    /\ rcall' = Called("callAIWithFunctionType", functionType)
    /\ rresult' = callAIWithFunctionType(functionType)
    /\ vendor' = Append(vendor, callAIWithFunctionType(functionType).delegated)
    /\ UNCHANGED <<useCaseVars, validatorVars, policyVars, router, rlog, restVars>>

NextRouter ==
    \/ \E m \in ModelIds : GetAdapterForModel(m)
    \/ \E o \in RouterOptions : RouterCallAI(o)
    \/ \E f \in DOMAIN PolicyModels : RouterCallAIWithFunctionType(Text(f))

SpecRouter == InitRouter /\ [][NextRouter]_vars

---------------------------------------------------------------------------
(* What the use case is called with, and what its collaborators answer.    *)

Collaborators ==
    {"userRepository", "habitSeriesRepository", "energyRepository", "aiProvider"}

TestData == MkObj([habit |-> Str(<<"r", "e", "a", "d">>)])

\* the payloads a caller sends: none, or an object with or without each field
Payloads ==
    {Undefined, Null}
    \cup { MkObj([language |-> l, testData |-> d, assistantContext |-> c]) :
             l \in {Undefined, Str(<<>>), Str(<<"e", "n">>), Str(<<"e", "s">>)},
             d \in {Undefined, TestData},
             c \in {Undefined, Str(<<"c", "t", "x">>)} }

\* payload?.k
OptGet(x, k) == IF x.t \in {"undefined", "null"} THEN Undefined ELSE Get(x, k)

\* the texts the creative and the structure pass answer with
CreativeTexts == {Text("Read Daily. Three actions: ..."), Text("")}
StructureTexts == {Text("TITLE Read Daily ACTIONS 1 2 3"), Text("")}

\* JSON texts of the normalization pass
JsonSeries3 ==
    "{\"title\":\"T\",\"description\":\"D\",\"actions\":[{\"name\":\"n\",\"description\":\"d\",\"difficulty\":\"low\"},{\"name\":\"n\",\"description\":\"d\",\"difficulty\":\"low\"},{\"name\":\"n\",\"description\":\"d\",\"difficulty\":\"low\"}]}"
JsonSeries2 ==
    "{\"title\":\"T\",\"description\":\"D\",\"actions\":[{\"name\":\"n\",\"description\":\"d\",\"difficulty\":\"low\"},{\"name\":\"n\",\"description\":\"d\",\"difficulty\":\"low\"}]}"
JsonBlankTitle ==
    "{\"title\":\"  \",\"description\":\"D\",\"actions\":[{\"name\":\"n\",\"description\":\"d\",\"difficulty\":\"low\"},{\"name\":\"n\",\"description\":\"d\",\"difficulty\":\"low\"},{\"name\":\"n\",\"description\":\"d\",\"difficulty\":\"low\"}]}"
JsonPrefixed == "Here is the JSON: " \o JsonSeries3

Series(n) ==
    MkSeries(Str(<<"T">>), Str(<<"D">>), Arr([i \in 1..n |-> GoodAction]))

\* JSON.parse(text) on the texts of the model: the value, or a SyntaxError
JSONparse(text) ==
    CASE text = JsonSeries3 -> [ok |-> TRUE, value |-> Series(3)]
      [] text = JsonSeries2 -> [ok |-> TRUE, value |-> Series(2)]
      [] text = JsonBlankTitle ->
            [ok |-> TRUE,
             value |-> MkSeries(Str(<<" ", " ">>), Str(<<"D">>), Series(3).v.actions)]
      [] text = "null" -> [ok |-> TRUE, value |-> Null]
      [] text = "not json" -> [ok |-> FALSE]
      [] text = "" -> [ok |-> FALSE]
      [] text = JsonPrefixed -> [ok |-> FALSE]

\* the contents the normalization pass answers with: texts, and values that
\* are no string
SchemaContents ==
    { Text(JsonSeries3), Text(JsonSeries2), Text(JsonBlankTitle), Text("null"),
      Text("not json"), Text(""), Text(JsonPrefixed),
      Series(4), Series(6), Undefined }

\* what a collaborator rejects with
AIErrors == {[class |-> "Error", message |-> "Gemini provider error: timeout"]}
RepositoryErrors == {[class |-> "Error", message |-> "write failed"]}
UserStateErrors == {[class |-> "Error", message |-> "user not found"]}

---------------------------------------------------------------------------
(* The HabitSeries entity.                                                 *)

\* Action.fromAIOutput(actionInput, id)
ActionFromAIOutput(actionInput, id) ==
    [id |-> id,
     name |-> Get(actionInput, "name"),
     description |-> Get(actionInput, "description"),
     difficulty |-> Get(actionInput, "difficulty")]

\* action.toDTO()
ActionToDTO(action) ==
    [name |-> action.name, description |-> action.description,
     difficulty |-> action.difficulty]

TypeError(msg) == [class |-> "TypeError", message |-> msg]

\* fromAIOutput that numbers the actions from 1
fromAIOutputOneBased(id, input, now) ==
    IF input.t \in {"undefined", "null"}
        THEN [ok |-> FALSE,
              error |-> TypeError("Cannot read properties of undefined")]
    ELSE [ok |-> TRUE,
          entity |->
            [id |-> id,
             title |-> Get(input, "title"),
             description |-> Get(input, "description"),
             actions |->
                [i \in DOMAIN Get(input, "actions").v |->
                    ActionFromAIOutput(Get(input, "actions").v[i],
                                       id \o "_action_" \o ToString(i))],
             rank |-> "BRONZE",
             totalScore |-> 0,
             createdAt |-> now,
             lastActivityAt |-> now]]

\* HabitSeries.fromAIOutput(id, input), `now` being what new Date() reads.
\* Reading input.actions of an undefined input throws.  The identifier of
\* an action is the template text: the series id, _action_ and the index
\* of map (from 0) in decimal.
fromAIOutput(id, input, now) ==
    IF input.t \in {"undefined", "null"}
        THEN [ok |-> FALSE,
              error |-> TypeError("Cannot read properties of undefined")]
    ELSE [ok |-> TRUE,
          entity |->
            [id |-> id,
             title |-> Get(input, "title"),
             description |-> Get(input, "description"),
             actions |->
                [i \in DOMAIN Get(input, "actions").v |->
                    ActionFromAIOutput(Get(input, "actions").v[i],
                                       id \o "_action_" \o ToString(i - 1))],
             rank |-> "BRONZE",
             totalScore |-> 0,
             createdAt |-> now,
             lastActivityAt |-> now]]

\* entity.toDTO()
toDTO(entity) ==
    [id |-> entity.id,
     title |-> entity.title,
     description |-> entity.description,
     actions |-> [i \in DOMAIN entity.actions |-> ActionToDTO(entity.actions[i])],
     rank |-> entity.rank,
     totalScore |-> entity.totalScore,
     createdAt |-> entity.createdAt,
     lastActivityAt |-> entity.lastActivityAt]

---------------------------------------------------------------------------
(* The persistence policy (PublicHabitSeriesPolicy.js, lines 52-54).       *)

\* isHabitSeriesFinal that takes every habit_series_ identifier for final
isHabitSeriesFinalAnyPass(functionType) ==
    startsWith(functionType, "habit_series_")

isHabitSeriesFinal(functionType) == functionType = "habit_series_structure"

\* The identifiers the policy is asked about: a beginning followed by an
\* ending.
TypeBeginnings ==
    {"habit_series_", "Habit_Series_", "HABIT_SERIES_", "habit-series-",
     "habit_series", " habit_series_", "json_", ""}
TypeEndings ==
    {"structure", "Structure", "structure ", "structured", "struct",
     "creative", "conversion", ""}
FunctionTypes == {b \o e : b \in TypeBeginnings, e \in TypeEndings}

---------------------------------------------------------------------------
(* SpecPolicy: isHabitSeriesFinal applied to one identifier.               *)

InitPolicy ==
    /\ Idle
    /\ models = PolicyModels
    /\ ValidatorIdle
    /\ RouterIdle
    /\ ptype \in FunctionTypes
    /\ pfinal = NotCalled
    /\ RestIdle

CallPolicy ==
    /\ pfinal = NotCalled
    /\ pfinal' = [called |-> TRUE, value |-> isHabitSeriesFinal(ptype)]
    /\ UNCHANGED <<useCaseVars, vendor, validatorVars, routerVars, ptype, restVars>>

NextPolicy == CallPolicy

SpecPolicy == InitPolicy /\ [][NextPolicy]_vars

---------------------------------------------------------------------------
(* createHabitSeries (lines 256-365).  A step runs the code from one await *)
(* to the next; trace records the calls made and the answers awaited.      *)

ValidationError(msg) == [class |-> "ValidationError", message |-> msg]

CallAI(functionType, input) ==
    [e |-> "call", op |-> "generateAIResponse", fn |-> functionType, input |-> input]
ReturnAI(content) ==
    [e |-> "return", op |-> "generateAIResponse", content |-> content]
CallRepository(entity) ==
    [e |-> "call", op |-> "createFromAI", entity |-> entity]
CallUserState == [e |-> "call", op |-> "incrementActiveSeries"]
Return(op) == [e |-> "return", op |-> op]
Rejected(op, error) == [e |-> "throw", op |-> op, error |-> error]

NoOutcome == [kind |-> "none"]
Returned(value) == [kind |-> "returned", value |-> value]
Threw(error, stage) == [kind |-> "threw", error |-> error, stage |-> stage]

\* x || ''
OrEmpty(x) == IF Truthy(x) THEN x ELSE Str(<<>>)

\* what new Date() reads: the model's clock is the invocation's number
Now == inv

\* The tables getModelConfig reads: the models of the policies, or one pass
\* configured with a model no provider family claims.
ModelTables ==
    {PolicyModels}
    \cup {[PolicyModels EXCEPT ![f] = Text("claude-3")] : f \in DOMAIN PolicyModels}

\* getModelConfig(functionType): the options of the pass, the entry of the
\* policy table with the model the table in use names
getModelConfig(functionType) ==
    Obj([getHabitSeriesAIConfig(functionType).v EXCEPT !.model = models[functionType]])

\* the pass whose generateAIResponse is awaited
PassAwaited ==
    CASE pc = "creative" -> "habit_series_creative"
      [] pc = "structure" -> "habit_series_structure"
      [] pc = "schema" -> "json_conversion"

\* generateAIResponse hands the pass to aiProvider.callAI(userId, messages,
\* config): the router resolved an adapter for it
Routed(functionType) == callAI(getModelConfig(functionType)).ok

\* the calls delegated to the adapters once the pass has been handed over
VendorWith(log, functionType) ==
    IF Routed(functionType)
        THEN Append(log, callAI(getModelConfig(functionType)).delegated)
    ELSE log

\* Line 351 calls HabitSeries.fromAIOutput(parsed) with the parsed output
\* alone.  With the factory declared as fromAIOutput(id, input) the output
\* is bound to id and input is undefined; the use case imports the factory
\* from HabitSeries.js, and a factory of the output alone builds the entity
\* from it under a fresh id.  Both outcomes are kept.
EntityBuilds(output, now) ==
    {fromAIOutput(output, Undefined, now), fromAIOutput(ToString(now), output, now)}

\* Invoke with the payload examined before the collaborators
InvokePayloadFirst(u, p, d) ==
    /\ pc \in {"idle", "done"}
    /\ inv < MaxInvocations
    /\ inv' = inv + 1
    /\ userId' = u /\ payload' = p /\ deps' = d
    /\ parsed' = Undefined /\ persisted' = Undefined
    /\ IF ~Truthy(OptGet(p, "language")) \/ ~Truthy(OptGet(p, "testData"))
          THEN /\ trace' = <<>>
               /\ vendor' = <<>>
               /\ pc' = "done"
               /\ outcome' = Threw(ValidationError("Missing required payload fields"),
                                   "payload")
       ELSE IF d # Collaborators
          THEN /\ trace' = <<>>
               /\ vendor' = <<>>
               /\ pc' = "done"
               /\ outcome' = Threw(ValidationError("Missing required dependencies"),
                                   "dependencies")
       ELSE /\ trace' = <<CallAI("habit_series_creative",
                                 [language |-> Get(p, "language"),
                                  assistantContext |-> OrEmpty(Get(p, "assistantContext")),
                                  testData |-> Get(p, "testData")])>>
            /\ vendor' = VendorWith(<<>>, "habit_series_creative")
            /\ pc' = "creative"
            /\ outcome' = NoOutcome
    /\ UNCHANGED <<store, activeSeries, models, validatorVars, routerVars, policyVars, restVars>>

\* lines 256-297: the guards, and the creative pass is issued
Invoke(u, p, d) ==
    /\ pc \in {"idle", "done"}
    /\ inv < MaxInvocations
    /\ inv' = inv + 1
    /\ userId' = u /\ payload' = p /\ deps' = d
    /\ parsed' = Undefined /\ persisted' = Undefined
    /\ IF d # Collaborators
          THEN /\ trace' = <<>>
               /\ vendor' = <<>>
               /\ pc' = "done"
               /\ outcome' = Threw(ValidationError("Missing required dependencies"),
                                   "dependencies")
       ELSE IF ~Truthy(OptGet(p, "language")) \/ ~Truthy(OptGet(p, "testData"))
          THEN /\ trace' = <<>>
               /\ vendor' = <<>>
               /\ pc' = "done"
               /\ outcome' = Threw(ValidationError("Missing required payload fields"),
                                   "payload")
       ELSE /\ trace' = <<CallAI("habit_series_creative",
                                 [language |-> Get(p, "language"),
                                  assistantContext |-> OrEmpty(Get(p, "assistantContext")),
                                  testData |-> Get(p, "testData")])>>
            /\ vendor' = VendorWith(<<>>, "habit_series_creative")
            /\ pc' = "creative"
            /\ outcome' = NoOutcome
    /\ UNCHANGED <<store, activeSeries, models, validatorVars, routerVars, policyVars, restVars>>

\* CreativeReturns with the structure pass left out
CreativeReturnsSkipsStructure(creativeResponse) ==
    /\ pc = "creative"
    /\ Routed(PassAwaited)
    /\ trace' = trace \o <<ReturnAI(creativeResponse.content),
                           CallAI("json_conversion",
                                  [content |-> creativeResponse.content,
                                   schema |-> "HABIT_SERIES_SCHEMA"])>>
    /\ pc' = "schema"
    /\ vendor' = VendorWith(vendor, "json_conversion")
    /\ UNCHANGED <<inv, userId, payload, deps, parsed, persisted, outcome, store,
                   activeSeries, models, validatorVars, routerVars, policyVars, restVars>>

\* lines 292-311: the creative pass answers, the structure pass is issued
CreativeReturns(creativeResponse) ==
    /\ pc = "creative"
    /\ Routed(PassAwaited)
    /\ trace' = trace \o <<ReturnAI(creativeResponse.content),
                           CallAI("habit_series_structure",
                                  [language |-> Get(payload, "language"),
                                   rawText |-> creativeResponse.content])>>
    /\ pc' = "structure"
    /\ vendor' = VendorWith(vendor, "habit_series_structure")
    /\ UNCHANGED <<inv, userId, payload, deps, parsed, persisted, outcome, store,
                   activeSeries, models, validatorVars, routerVars, policyVars, restVars>>

\* StructureReturns on a router that keeps the adapter it resolved last and
\* hands every later call to it
StructureReturnsKeepsAdapter(structureResponse) ==
    /\ pc = "structure"
    /\ Routed(PassAwaited)
    /\ trace' = trace \o <<ReturnAI(structureResponse.content),
                           CallAI("json_conversion",
                                  [content |-> structureResponse.content,
                                   schema |-> "HABIT_SERIES_SCHEMA"])>>
    /\ pc' = "schema"
    /\ vendor' = VendorWith(vendor, "json_conversion")
    /\ router' = IF Routed("json_conversion")
                     THEN [k \in DOMAIN router |->
                              callAI(getModelConfig("json_conversion")).delegated.adapter]
                  ELSE router
    /\ UNCHANGED <<inv, userId, payload, deps, parsed, persisted, outcome, store,
                   activeSeries, models, validatorVars, rcall, rresult, rlog,
                   policyVars, restVars>>

\* StructureReturns that hands the creative pass's content to the
\* normalization pass
StructureReturnsForwardsCreative(structureResponse) ==
    /\ pc = "structure"
    /\ Routed(PassAwaited)
    /\ trace' = trace \o <<ReturnAI(structureResponse.content),
                           CallAI("json_conversion",
                                  [content |-> trace[2].content,
                                   schema |-> "HABIT_SERIES_SCHEMA"])>>
    /\ pc' = "schema"
    /\ vendor' = VendorWith(vendor, "json_conversion")
    /\ UNCHANGED <<inv, userId, payload, deps, parsed, persisted, outcome, store,
                   activeSeries, models, validatorVars, routerVars, policyVars, restVars>>

\* lines 306-325: the structure pass answers, the normalization pass is issued
StructureReturns(structureResponse) ==
    /\ pc = "structure"
    /\ Routed(PassAwaited)
    /\ trace' = trace \o <<ReturnAI(structureResponse.content),
                           CallAI("json_conversion",
                                  [content |-> structureResponse.content,
                                   schema |-> "HABIT_SERIES_SCHEMA"])>>
    /\ pc' = "schema"
    /\ vendor' = VendorWith(vendor, "json_conversion")
    /\ UNCHANGED <<inv, userId, payload, deps, parsed, persisted, outcome, store,
                   activeSeries, models, validatorVars, routerVars, policyVars, restVars>>

\* SchemaReturns with the validator's verdict ignored
SchemaReturnsUnvalidated(schemaResponse) ==
    LET content == schemaResponse.content
        parse == IF TypeOf(content) = "string" THEN JSONparse(content.text)
                 ELSE [ok |-> TRUE, value |-> content]
        answered == trace \o <<ReturnAI(content)>>
    IN  /\ pc = "schema"
        /\ Routed(PassAwaited)
        /\ IF ~parse.ok
              THEN /\ parsed' = Undefined
                   /\ trace' = answered
                   /\ pc' = "done"
                   /\ outcome' = Threw(ValidationError("AI output is not valid JSON"),
                                       "parse")
           ELSE \E built \in EntityBuilds(parse.value, Now) :
                   /\ parsed' = parse.value
                   /\ IF ~built.ok
                         THEN /\ trace' = answered
                              /\ pc' = "done"
                              /\ outcome' = Threw(built.error, "entity")
                      ELSE /\ trace' = answered \o <<CallRepository(built.entity)>>
                           /\ pc' = "persist"
                           /\ outcome' = NoOutcome
        /\ UNCHANGED <<inv, userId, payload, deps, persisted, store, activeSeries,
                       models, vendor, validatorVars, routerVars, policyVars, restVars>>

\* SchemaReturns with a second parse: a content that is no JSON text is
\* searched for the JSON text inside it
SchemaReturnsSecondParse(schemaResponse) ==
    LET content == schemaResponse.content
        first == IF TypeOf(content) = "string" THEN JSONparse(content.text)
                 ELSE [ok |-> TRUE, value |-> content]
        parse == IF ~first.ok /\ content = Text(JsonPrefixed)
                    THEN JSONparse(JsonSeries3) ELSE first
        answered == trace \o <<ReturnAI(content)>>
    IN  /\ pc = "schema"
        /\ Routed(PassAwaited)
        /\ IF ~parse.ok
              THEN /\ parsed' = Undefined
                   /\ trace' = answered
                   /\ pc' = "done"
                   /\ outcome' = Threw(ValidationError("AI output is not valid JSON"),
                                       "parse")
           ELSE IF ~validateAIOutput(parse.value).valid
              THEN /\ parsed' = parse.value
                   /\ trace' = answered
                   /\ pc' = "done"
                   /\ outcome' =
                        Threw(ValidationError("AI output validation failed: "
                                              \o validateAIOutput(parse.value).error),
                              "validate")
           ELSE \E built \in EntityBuilds(parse.value, Now) :
                   /\ parsed' = parse.value
                   /\ IF ~built.ok
                         THEN /\ trace' = answered
                              /\ pc' = "done"
                              /\ outcome' = Threw(built.error, "entity")
                      ELSE /\ trace' = answered \o <<CallRepository(built.entity)>>
                           /\ pc' = "persist"
                           /\ outcome' = NoOutcome
        /\ UNCHANGED <<inv, userId, payload, deps, persisted, store, activeSeries,
                       models, vendor, validatorVars, routerVars, policyVars, restVars>>

\* lines 320-352: the normalization pass answers; parse, validate, build the
\* entity, call the repository
SchemaReturns(schemaResponse) ==
    LET content == schemaResponse.content
        parse == IF TypeOf(content) = "string" THEN JSONparse(content.text)
                 ELSE [ok |-> TRUE, value |-> content]
        answered == trace \o <<ReturnAI(content)>>
    IN  /\ pc = "schema"
        /\ Routed(PassAwaited)
        /\ IF ~parse.ok
              THEN /\ parsed' = Undefined
                   /\ trace' = answered
                   /\ pc' = "done"
                   /\ outcome' = Threw(ValidationError("AI output is not valid JSON"),
                                       "parse")
           ELSE IF ~validateAIOutput(parse.value).valid
              THEN /\ parsed' = parse.value
                   /\ trace' = answered
                   /\ pc' = "done"
                   /\ outcome' =
                        Threw(ValidationError("AI output validation failed: "
                                              \o validateAIOutput(parse.value).error),
                              "validate")
           ELSE \E built \in EntityBuilds(parse.value, Now) :
                   /\ parsed' = parse.value
                   /\ IF ~built.ok
                         THEN /\ trace' = answered
                              /\ pc' = "done"
                              /\ outcome' = Threw(built.error, "entity")
                      ELSE /\ trace' = answered \o <<CallRepository(built.entity)>>
                           /\ pc' = "persist"
                           /\ outcome' = NoOutcome
        /\ UNCHANGED <<inv, userId, payload, deps, persisted, store, activeSeries,
                       models, vendor, validatorVars, routerVars, policyVars, restVars>>

\* AIFails with the rejection swallowed: the pipeline goes on with an empty
\* content
AIFailsDegraded(error) ==
    /\ pc \in {"creative", "structure"}
    /\ Routed(PassAwaited)
    /\ trace' = trace \o <<Rejected("generateAIResponse", error),
                           CallAI(IF pc = "creative" THEN "habit_series_structure"
                                  ELSE "json_conversion",
                                  [content |-> Text("")])>>
    /\ pc' = IF pc = "creative" THEN "structure" ELSE "schema"
    /\ vendor' = VendorWith(vendor, IF pc = "creative" THEN "habit_series_structure"
                                     ELSE "json_conversion")
    /\ UNCHANGED <<inv, userId, payload, deps, parsed, persisted, outcome, store,
                   activeSeries, models, validatorVars, routerVars, policyVars, restVars>>

\* AIFails with the rejected pass issued again
AIFailsRetries(error) ==
    /\ pc \in {"creative", "structure", "schema"}
    /\ Routed(PassAwaited)
    /\ trace' = trace \o <<Rejected("generateAIResponse", error), trace[Len(trace)]>>
    /\ vendor' = VendorWith(vendor, PassAwaited)
    /\ UNCHANGED <<pc, inv, userId, payload, deps, parsed, persisted, outcome, store,
                   activeSeries, models, validatorVars, routerVars, policyVars, restVars>>

\* an awaited generateAIResponse rejects: nothing catches it
AIFails(error) ==
    /\ pc \in {"creative", "structure", "schema"}
    /\ Routed(PassAwaited)
    /\ trace' = Append(trace, Rejected("generateAIResponse", error))
    /\ outcome' = Threw(error, pc)
    /\ pc' = "done"
    /\ UNCHANGED <<inv, userId, payload, deps, parsed, persisted, store,
                   activeSeries, models, vendor, validatorVars, routerVars, policyVars, restVars>>

\* the router threw for the pass awaited (no adapter for its model):
\* generateAIResponse rejects and nothing catches it
RouterRejects ==
    /\ pc \in {"creative", "structure", "schema"}
    /\ ~Routed(PassAwaited)
    /\ trace' = Append(trace, Rejected("generateAIResponse",
                                       callAI(getModelConfig(PassAwaited)).error))
    /\ outcome' = Threw(callAI(getModelConfig(PassAwaited)).error, pc)
    /\ pc' = "done"
    /\ UNCHANGED <<inv, userId, payload, deps, parsed, persisted, store,
                   activeSeries, models, vendor, validatorVars, routerVars,
                   policyVars, restVars>>

\* lines 352-358: the repository stores the entity and answers; the
\* user-state update is called
PersistReturns ==
    /\ pc = "persist"
    /\ store' = store \cup {[userId |-> userId, entity |-> trace[Len(trace)].entity]}
    /\ persisted' = trace[Len(trace)].entity
    /\ trace' = trace \o <<Return("createFromAI"), CallUserState>>
    /\ pc' = "increment"
    /\ UNCHANGED <<inv, userId, payload, deps, parsed, outcome, activeSeries,
                   models, vendor, validatorVars, routerVars, policyVars, restVars>>

\* PersistFails with one retry of the rejected call
PersistFailsRetries(error) ==
    /\ pc = "persist"
    /\ Cardinality({i \in DOMAIN trace : trace[i].e = "call" /\ trace[i].op = "createFromAI"}) < 2
    /\ trace' = trace \o <<Rejected("createFromAI", error),
                           CallRepository(trace[Len(trace)].entity)>>
    /\ UNCHANGED <<pc, inv, userId, payload, deps, parsed, persisted, outcome, store,
                   activeSeries, models, vendor, validatorVars, routerVars, policyVars, restVars>>

\* PersistFails that swallows the rejection and goes on to the user state
PersistFailsStillIncrements(error) ==
    /\ pc = "persist"
    /\ trace' = trace \o <<Rejected("createFromAI", error), CallUserState>>
    /\ pc' = "increment"
    /\ UNCHANGED <<inv, userId, payload, deps, parsed, persisted, outcome, store,
                   activeSeries, models, vendor, validatorVars, routerVars, policyVars, restVars>>

\* line 352: the repository rejects and stores nothing: nothing catches it
PersistFails(error) ==
    /\ pc = "persist"
    /\ trace' = Append(trace, Rejected("createFromAI", error))
    /\ outcome' = Threw(error, "persist")
    /\ pc' = "done"
    /\ UNCHANGED <<inv, userId, payload, deps, parsed, persisted, store,
                   activeSeries, models, vendor, validatorVars, routerVars, policyVars, restVars>>

\* lines 358-364: the user-state update answers; the DTO is returned
IncrementReturns ==
    /\ pc = "increment"
    /\ activeSeries' = [activeSeries EXCEPT ![userId] = @ + 1]
    /\ trace' = Append(trace, Return("incrementActiveSeries"))
    /\ outcome' = Returned(toDTO(persisted))
    /\ pc' = "done"
    /\ UNCHANGED <<inv, userId, payload, deps, parsed, persisted, store,
                   models, vendor, validatorVars, routerVars, policyVars, restVars>>

\* line 358: the user-state update rejects: nothing catches it
IncrementFails(error) ==
    /\ pc = "increment"
    /\ trace' = Append(trace, Rejected("incrementActiveSeries", error))
    /\ outcome' = Threw(error, "increment")
    /\ pc' = "done"
    /\ UNCHANGED <<inv, userId, payload, deps, parsed, persisted, store,
                   activeSeries, models, vendor, validatorVars, routerVars, policyVars, restVars>>

Init ==
    /\ Idle
    /\ models \in ModelTables
    /\ ValidatorIdle
    /\ RouterIdle
    /\ PolicyIdle
    /\ RestIdle

Next ==
    \/ \E u \in Users, p \in Payloads, d \in SUBSET Collaborators : Invoke(u, p, d)
    \/ \E c \in CreativeTexts : CreativeReturns([content |-> c])
    \/ \E c \in StructureTexts : StructureReturns([content |-> c])
    \/ \E c \in SchemaContents : SchemaReturns([content |-> c])
    \/ \E e \in AIErrors : AIFails(e)
    \/ RouterRejects
    \/ PersistReturns
    \/ \E e \in RepositoryErrors : PersistFails(e)
    \/ IncrementReturns
    \/ \E e \in UserStateErrors : IncrementFails(e)

Spec == Init /\ [][Next]_vars

\* The awaited collaborator call settles: the AI execution answers or
\* rejects (or the router throws), the repository resolves or rejects, the
\* user-state update resolves or rejects.
CollaboratorSettles ==
    \/ \E c \in CreativeTexts : CreativeReturns([content |-> c])
    \/ \E c \in StructureTexts : StructureReturns([content |-> c])
    \/ \E c \in SchemaContents : SchemaReturns([content |-> c])
    \/ \E e \in AIErrors : AIFails(e)
    \/ RouterRejects
    \/ PersistReturns
    \/ \E e \in RepositoryErrors : PersistFails(e)
    \/ IncrementReturns
    \/ \E e \in UserStateErrors : IncrementFails(e)

\* One invocation of the use case, from the call to its end.
NextFair ==
    \/ /\ inv = 0
       /\ \E u \in Users, p \in Payloads, d \in SUBSET Collaborators : Invoke(u, p, d)
    \/ CollaboratorSettles

\* The first invocation with every awaited promise settling in the end: the
\* invocation does not stay at an await for ever.
SpecFair == Init /\ [][NextFair]_vars /\ WF_vars(CollaboratorSettles)

---------------------------------------------------------------------------
(* SpecConcurrent: two invocations of createHabitSeries on one router.     *)
(* An invocation runs from one await to the next; at an await the event    *)
(* loop may resume the other invocation, whose locals are parked.          *)

\* the locals of the running invocation
Locals ==
    [pc |-> pc, userId |-> userId, payload |-> payload, deps |-> deps,
     trace |-> trace, parsed |-> parsed, persisted |-> persisted,
     outcome |-> outcome, vendor |-> vendor]

\* the other invocation is resumed (or is yet to be called)
Switch ==
    /\ parked' = Locals
    /\ pc' = parked.pc /\ userId' = parked.userId /\ payload' = parked.payload
    /\ deps' = parked.deps /\ trace' = parked.trace /\ parsed' = parked.parsed
    /\ persisted' = parked.persisted /\ outcome' = parked.outcome
    /\ vendor' = parked.vendor
    /\ UNCHANGED <<inv, store, activeSeries, models, validatorVars, routerVars,
                   policyVars, adapterVars, energyVars, unitVars>>

\* what the two invocations are called with and answered
ConcurrentPayloads ==
    {Null,
     MkObj([language |-> Str(<<"e", "n">>), testData |-> TestData,
            assistantContext |-> Str(<<"c", "t", "x">>)])}

NextConcurrent ==
    \/ \E u \in Users, p \in ConcurrentPayloads,
          d \in {Collaborators, Collaborators \ {"aiProvider"}} : Invoke(u, p, d)
    \/ \E c \in CreativeTexts : CreativeReturns([content |-> c])
    \/ \E c \in StructureTexts : StructureReturns([content |-> c])
    \/ \E c \in {Text(JsonSeries3), Text(JsonSeries2), Text("not json")} :
          SchemaReturns([content |-> c])
    \/ \E e \in AIErrors : AIFails(e)
    \/ RouterRejects
    \/ PersistReturns
    \/ \E e \in RepositoryErrors : PersistFails(e)
    \/ IncrementReturns
    \/ \E e \in UserStateErrors : IncrementFails(e)
    \/ Switch

SpecConcurrent == Init /\ [][NextConcurrent]_vars

---------------------------------------------------------------------------
(* GeminiAdapter: token and energy accounting (lines 728-755).             *)

\* text.length of a string
Length(text) ==
    IF "text" \in DOMAIN text THEN Len(text.text)
    ELSE IF "length" \in DOMAIN text THEN text.length
    ELSE Len(text.v)

\* a string of n characters c
Chars(n, c) == [t |-> "string", length |-> n, fill |-> c]

\* Math.round(n / d) and Math.ceil(n / d) for a quotient that is not
\* negative: round takes a half upwards.  No quotient of the two functions
\* below lies within the error of floating point of a half or of an integer.
MathRound(n, d) == (2 * n + d) \div (2 * d)
MathCeil(n, d) == (n + d - 1) \div d

\* lines 728-731: 0 for a text that is falsy or no string, else
\* Math.round(text.length / 3.7)
calculateGeminiTokens(text) ==
    IF text.t # "string" \/ Length(text) = 0 THEN 0
    ELSE MathRound(10 * Length(text), 37)

\* calculateGeminiEnergy with the total rounded down to the hundred
calculateGeminiEnergyFloored(prompt, response) ==
    LET tokensPrompt == calculateGeminiTokens(prompt)
        tokensResponse == calculateGeminiTokens(response)
        totalTokens == MathRound(10 * tokensResponse + 3 * tokensPrompt, 10)
    IN  [tokensPrompt |-> tokensPrompt, tokensResponse |-> tokensResponse,
         totalTokens |-> totalTokens, energy |-> totalTokens \div 100]

\* lines 742-755: what the function logs (the three token counts) and what
\* it returns (energy)
calculateGeminiEnergy(prompt, response) ==
    LET tokensPrompt == calculateGeminiTokens(prompt)
        tokensResponse == calculateGeminiTokens(response)
        totalTokens == MathRound(10 * tokensResponse + 3 * tokensPrompt, 10)
    IN  [tokensPrompt |-> tokensPrompt, tokensResponse |-> tokensResponse,
         totalTokens |-> totalTokens, energy |-> MathCeil(totalTokens, 100)]

\* The texts the accounting is called with: every length up to
\* MaxShortText, the lengths behind the token counts of the README's logs
\* (791, 473, 307, 260, 98 and 95 tokens), each of two different characters,
\* and values that are no string.
LoggedLengths == {2927, 1750, 1136, 962, 363, 352}
EnergyTexts ==
    {Chars(n, c) : n \in (0..MaxShortText) \cup LoggedLengths, c \in {"a", "z"}}
    \cup {Undefined, Null, Num(7)}

InitEnergy ==
    /\ Idle
    /\ models = PolicyModels
    /\ ValidatorIdle
    /\ RouterIdle
    /\ PolicyIdle
    /\ RestIdle

\* one call of calculateGeminiEnergy(prompt, response)
CalculateEnergy(prompt, response) ==
    /\ ecall = NotCalled
    /\ ecall' = Called("calculateGeminiEnergy",
                       [prompt |-> prompt, response |-> response])
    /\ eresult' = calculateGeminiEnergy(prompt, response)
    /\ UNCHANGED <<useCaseVars, vendor, validatorVars, routerVars, policyVars,
                   adapterVars, parked, unitVars>>

NextEnergy == \E prompt \in EnergyTexts, response \in EnergyTexts :
                  CalculateEnergy(prompt, response)

SpecEnergy == InitEnergy /\ [][NextEnergy]_vars

---------------------------------------------------------------------------
(* CreativeHabitSeriesPrompt (lines 1-142) and GeminiAdapter.callAI (lines *)
(* 773-843).  A message is a record of role and content; the texts are     *)
(* strings.                                                                *)

\* sanitizeUserInput (SanitizeUserInput.js): the delimiters of markup are
\* stripped from the text
RiskyChars == {"<", ">"}
RECURSIVE sanitizeUserInput(_)
sanitizeUserInput(text) ==
    IF text = "" THEN ""
    ELSE (IF SubSeq(text, 1, 1) \in RiskyChars THEN "" ELSE SubSeq(text, 1, 1))
         \o sanitizeUserInput(SubSeq(text, 2, Len(text)))

\* Array.prototype.join
\* join that leaves out the last part
RECURSIVE joinDropsLast(_, _)
joinDropsLast(parts, separator) ==
    IF Len(parts) =< 1 THEN ""
    ELSE IF Len(parts) = 2 THEN parts[1]
    ELSE parts[1] \o separator \o joinDropsLast(Tail(parts), separator)

RECURSIVE join(_, _)
join(parts, separator) ==
    IF Len(parts) = 0 THEN ""
    ELSE IF Len(parts) = 1 THEN parts[1]
    ELSE parts[1] \o separator \o join(Tail(parts), separator)

\* text.trim() is the empty string
\* the test of the context without trim(): only the empty text is blank
IsBlankUntrimmed(text) == text = ""

IsBlank(text) == \A k \in 1..Len(text) : SubSeq(text, k, k) \in {" ", "\t", "\n"}

\* lines 36-141: the system and user messages of the creative pass.  The
\* rules of the system prompt are shortened to their first and last lines;
\* testData is the sequence of Object.entries(testData).
CreativeHabitSeriesPrompt(language, assistantContext, testData) ==
    LET contextSection ==
            IF IsBlank(assistantContext) THEN ""
            ELSE "\n\n---\nBACKGROUND CONTEXT (for reference only, do not reply to this):\n"
                 \o assistantContext \o "\n---\n"
        systemPrompt ==
            IF language = "en"
                THEN "LANGUAGE CONSTRAINT (MANDATORY): You MUST generate ALL content in ENGLISH.\n"
                     \o contextSection
                     \o "\nFORMAT RULES (VERY STRICT):\nALL OUTPUT MUST BE IN ENGLISH."
            ELSE "RESTRICCION DE IDIOMA (OBLIGATORIO): DEBES generar TODO el contenido en ESPANOL.\n"
                 \o contextSection
                 \o "\nREGLAS DE FORMATO (MUY ESTRICTAS):\nTODO EL CONTENIDO DEBE ESTAR EN ESPANOL."
        entries == [i \in DOMAIN testData |-> testData[i][1] \o ": " \o testData[i][2]]
        userPrompt ==
            (IF language = "en" THEN "Test data: " ELSE "Datos del test: ")
            \o join(entries, "; ")
    IN  <<[role |-> "system", content |-> systemPrompt],
          [role |-> "user", content |-> userPrompt]>>

\* sanitizedMessages with every message sanitized, whatever its role
SanitizedMessagesOfEveryRole(messages) ==
    [i \in DOMAIN messages |->
        [messages[i] EXCEPT !.content = sanitizeUserInput(@)]]

\* lines 791-796: a new array; a message of role user is copied with its
\* content sanitized, the others are kept
SanitizedMessages(messages) ==
    [i \in DOMAIN messages |->
        IF messages[i].role = "user"
            THEN [messages[i] EXCEPT !.content = sanitizeUserInput(@)]
        ELSE messages[i]]

\* lines 801-805: the prompt text
GeminiPrompt(sanitizedMessages) ==
    join([i \in DOMAIN sanitizedMessages |->
            CASE sanitizedMessages[i].role = "system" ->
                    "[SYSTEM INSTRUCTIONS]\n" \o sanitizedMessages[i].content
              [] sanitizedMessages[i].role = "assistant" ->
                    "[ASSISTANT]\n" \o sanitizedMessages[i].content
              [] OTHER -> sanitizedMessages[i].content],
         "\n\n")

\* a field of options, or its default (lines 775-780)
Option(options, k, default) ==
    IF Get(options, k).t = "undefined" THEN default ELSE Get(options, k)

\* lines 807-815: the argument of generateContent
GeminiRequest(messages, options) ==
    [prompt |-> GeminiPrompt(SanitizedMessages(messages)),
     generationConfig |->
        [temperature |-> Option(options, "temperature", Tenths(7)),
         maxOutputTokens |-> Option(options, "maxTokens", Num(1500))]]

\* lines 839-842: what the catch block throws
ProviderError(error) == Error("Gemini provider error: " \o error.message)

\* what messages.map throws when messages is undefined (the message names
\* the property in quotation marks)
MapOfUndefined ==
    [class |-> "TypeError",
     message |-> "Cannot read properties of undefined (reading map)"]

\* The payloads the creative prompt is built from, and the message arrays
\* of other callers.
PromptPayloads ==
    {[language |-> l, assistantContext |-> c, testData |-> d] :
        l \in {"en", "es"},
        c \in {"", "  ", "Be kind", "<i>Be kind</i>"},
        d \in {<<>>, <<<<"goal", "read">>>>,
               <<<<"goal", "<b>read</b>">>, <<"time", "10">>>>}}
Messages ==
    {[role |-> r, content |-> c] :
        r \in {"system", "user", "assistant", "tool"}, c \in {"Hi", "<b>Hi</b>"}}
MessageArrays == UNION {[1..n -> Messages] : n \in 0..MaxMessages}
AdapterCallers ==
    {[payload |-> p,
      messages |-> Arr(CreativeHabitSeriesPrompt(p.language, p.assistantContext,
                                                 p.testData))] :
        p \in PromptPayloads}
    \cup {[payload |-> Undefined, messages |-> Arr(m)] : m \in MessageArrays}
    \cup {[payload |-> Undefined, messages |-> Undefined]}

\* the options of a call: none, or those of a pass
AdapterOptions ==
    {MkObj([model |-> Undefined])}
    \cup {HABIT_SERIES_AI_POLICIES[f] : f \in DOMAIN HABIT_SERIES_AI_POLICIES}

\* what generateContent resolves with: a result whose response.text()
\* returns a text, or throws
VendorResults ==
    {[ok |-> TRUE, text |-> Text("Read Daily. Three actions: ...")],
     [ok |-> TRUE, text |-> Text("")],
     [ok |-> TRUE, text |-> Chars(1136, "z")],
     [ok |-> FALSE, error |-> Error("Response was blocked")]}
VendorErrors == {Error("fetch failed"), Error("429 Too Many Requests")}

InitAdapter ==
    /\ Idle
    /\ models = PolicyModels
    /\ ValidatorIdle
    /\ RouterIdle
    /\ PolicyIdle
    /\ acaller \in AdapterCallers
    /\ AdapterIdle
    /\ EnergyIdle
    /\ parked = IdleLocals
    /\ UnitIdle

\* lines 773-815: callAI up to its await; messages.map throws when messages
\* is no array, and the catch block wraps what was thrown
AdapterCallAI(options) ==
    /\ apc = "idle"
    /\ acall' = Called("callAI", [messages |-> acaller.messages, options |-> options])
    /\ acaller' = acaller
    /\ IF ~IsArray(acaller.messages)
          THEN /\ alog' = alog
               /\ aresult' = [kind |-> "threw", error |-> ProviderError(MapOfUndefined)]
               /\ apc' = "done"
       ELSE /\ alog' = Append(alog, [e |-> "call", op |-> "generateContent",
                                     request |-> GeminiRequest(acaller.messages.v,
                                                               options)])
            /\ aresult' = aresult
            /\ apc' = "awaiting"
    /\ UNCHANGED <<useCaseVars, vendor, validatorVars, routerVars, policyVars,
                   energyVars, parked, unitVars>>

\* GenerateContentFails with the request issued once more
GenerateContentFailsRetries(error) ==
    /\ apc = "awaiting"
    /\ Len(alog) < 4
    /\ alog' = alog \o <<[e |-> "throw", op |-> "generateContent", error |-> error],
                         alog[1]>>
    /\ UNCHANGED <<useCaseVars, vendor, validatorVars, routerVars, policyVars,
                   acaller, acall, apc, aresult, energyVars, parked, unitVars>>

\* lines 812-843: the request rejects; the catch block wraps the error
GenerateContentFails(error) ==
    /\ apc = "awaiting"
    /\ alog' = Append(alog, [e |-> "throw", op |-> "generateContent", error |-> error])
    /\ aresult' = [kind |-> "threw", error |-> ProviderError(error)]
    /\ apc' = "done"
    /\ UNCHANGED <<useCaseVars, vendor, validatorVars, routerVars, policyVars,
                   acaller, acall, energyVars, parked, unitVars>>

\* GenerateContentReturns with the tokens of the prompt counted in tokensUsed
GenerateContentReturnsCountsPrompt(result) ==
    LET prompt == Text(alog[1].request.prompt)
    IN  /\ apc = "awaiting"
        /\ alog' = Append(alog, [e |-> "return", op |-> "generateContent",
                                 result |-> result])
        /\ aresult' =
             IF result.ok
                 THEN [kind |-> "returned",
                       value |->
                          [content |-> result.text,
                           model |-> Option(acall.arg.options, "model", DefaultModel),
                           tokensUsed |-> calculateGeminiTokens(prompt)
                                          + calculateGeminiTokens(result.text),
                           energyConsumed |->
                              calculateGeminiEnergy(prompt, result.text).energy]]
             ELSE [kind |-> "threw", error |-> ProviderError(result.error)]
        /\ apc' = "done"
        /\ UNCHANGED <<useCaseVars, vendor, validatorVars, routerVars, policyVars,
                       acaller, acall, energyVars, parked, unitVars>>

\* lines 812-837: the request resolves; the response is built from the text,
\* or response.text() throws and the catch block wraps the error
GenerateContentReturns(result) ==
    LET prompt == Text(alog[1].request.prompt)
    IN  /\ apc = "awaiting"
        /\ alog' = Append(alog, [e |-> "return", op |-> "generateContent",
                                 result |-> result])
        /\ aresult' =
             IF result.ok
                 THEN [kind |-> "returned",
                       value |->
                          [content |-> result.text,
                           model |-> Option(acall.arg.options, "model", DefaultModel),
                           tokensUsed |-> calculateGeminiTokens(result.text),
                           energyConsumed |->
                              calculateGeminiEnergy(prompt, result.text).energy]]
             ELSE [kind |-> "threw", error |-> ProviderError(result.error)]
        /\ apc' = "done"
        /\ UNCHANGED <<useCaseVars, vendor, validatorVars, routerVars, policyVars,
                       acaller, acall, energyVars, parked, unitVars>>

NextAdapter ==
    \/ \E o \in AdapterOptions : AdapterCallAI(o)
    \/ \E r \in VendorResults : GenerateContentReturns(r)
    \/ \E e \in VendorErrors : GenerateContentFails(e)

SpecAdapter == InitAdapter /\ [][NextAdapter]_vars

---------------------------------------------------------------------------
(* SpecPrompt: CreativeHabitSeriesPrompt (lines 36-140) called on one      *)
(* argument object, once or again.                                         *)

\* most calls of the builder on one argument, most entries of testData
MaxBuilds == 2
MaxEntries == 2

\* The arguments of the builder: the two languages of the prompt, a locale
\* it has no prompt for, another spelling of en and the empty text; a
\* context that is empty, whitespace only, or text; testData as the
\* sequence of Object.entries(testData), keys distinct.
BuilderArguments ==
    LET Keys == {"goal", "time", "pace"}
        Values == {"read more", "<b>10 min</b>"}
        Entries == UNION {[1..n -> Keys \X Values] : n \in 0..MaxEntries}
    IN  [language : {"en", "es", "fr", "EN", ""},
         assistantContext : {"", "  ", " \n\t", "Be kind", " Be kind ",
                             "<i>Be kind</i>"},
         testData : {e \in Entries :
                        \A i, j \in DOMAIN e : e[i][1] = e[j][1] => i = j}]

InitPrompt ==
    /\ Idle
    /\ models = PolicyModels
    /\ ValidatorIdle
    /\ RouterIdle
    /\ PolicyIdle
    /\ acaller = [payload |-> Undefined, messages |-> Undefined]
    /\ AdapterIdle
    /\ EnergyIdle
    /\ parked = IdleLocals
    /\ bargs \in BuilderArguments
    /\ blog = <<>>
    /\ EntityIdle

\* one call CreativeHabitSeriesPrompt(bargs): the builder reads the three
\* properties and assigns none
BuildPrompt ==
    /\ Len(blog) < MaxBuilds
    /\ blog' = Append(blog,
                      [arg |-> bargs,
                       value |-> CreativeHabitSeriesPrompt(bargs.language,
                                                           bargs.assistantContext,
                                                           bargs.testData)])
    /\ bargs' = bargs
    /\ UNCHANGED <<useCaseVars, vendor, validatorVars, routerVars, policyVars,
                   adapterVars, energyVars, parked, entityVars>>

NextPrompt == BuildPrompt

SpecPrompt == InitPrompt /\ [][NextPrompt]_vars

---------------------------------------------------------------------------
(* SpecEntity: HabitSeries.fromAIOutput(id, input) (part_000, lines        *)
(* 99-116) called on an id and an AI output, and toDTO (lines 167-178)     *)
(* called on the entity it built.                                          *)

\* most actions of an output handed to the factory
MaxBuilt == 3

\* The arguments of the factory: an id or the empty text, and an output of
\* a title, a description and 0..MaxBuilt actions out of three, in any
\* order and with repetitions (the factory does not validate); or no
\* output at all.
EntityInputs ==
    LET Actions == {MkAction(Str(<<"r", "e", "a", "d">>), Str(<<"d">>), Difficulty.LOW),
                    MkAction(Str(<<"w", "a", "l", "k">>), Str(<<"d">>), Difficulty.MEDIUM),
                    MkAction(Str(<<"r", "e", "s", "t">>), Str(<<"e">>), Difficulty.HIGH)}
        Outputs == {MkSeries(title, description, Arr(actions)) :
                        title \in {Str(<<"T">>), Str(<<>>)},
                        description \in {Str(<<"D">>), Str(<<"T">>)},
                        actions \in UNION {[1..n -> Actions] : n \in 0..MaxBuilt}}
    IN  [id : {"hs1", ""}, input : Outputs \cup {Undefined}]

InitEntity ==
    /\ Idle
    /\ models = PolicyModels
    /\ ValidatorIdle
    /\ RouterIdle
    /\ PolicyIdle
    /\ acaller = [payload |-> Undefined, messages |-> Undefined]
    /\ AdapterIdle
    /\ EnergyIdle
    /\ parked = IdleLocals
    /\ BuilderIdle
    /\ hinput \in EntityInputs
    /\ hentity = NotCalled
    /\ hdto = NotCalled

\* HabitSeries.fromAIOutput(hinput.id, hinput.input), new Date() reading
\* one of two instants
FromAIOutput ==
    /\ hentity = NotCalled
    /\ \E now \in {1, 2} : hentity' = fromAIOutput(hinput.id, hinput.input, now)
    /\ UNCHANGED <<useCaseVars, vendor, validatorVars, routerVars, policyVars,
                   adapterVars, energyVars, parked, builderVars, hinput, hdto>>

\* toDTO() on the entity the factory returned
ToDTO ==
    /\ hentity # NotCalled
    /\ hentity.ok
    /\ hdto = NotCalled
    /\ hdto' = toDTO(hentity.entity)
    /\ UNCHANGED <<useCaseVars, vendor, validatorVars, routerVars, policyVars,
                   adapterVars, energyVars, parked, builderVars, hinput, hentity>>

NextEntity == FromAIOutput \/ ToDTO

SpecEntity == InitEntity /\ [][NextEntity]_vars

---------------------------------------------------------------------------
(* Reading the trace of the running invocation.                            *)

IsAIEvent(ev) == ev.op = "generateAIResponse"
IsAICall(ev) == ev.e = "call" /\ ev.op = "generateAIResponse"
IsCall(ev) == ev.e = "call"

AIEvents == SelectSeq(trace, IsAIEvent)
AICalls == SelectSeq(trace, IsAICall)
AllCalls == SelectSeq(trace, IsCall)

\* the pass identifiers of the AI calls issued, in the order of issue
PassesIssued == [i \in DOMAIN AICalls |-> AICalls[i].fn]

\* what each call was: the pass identifier of an AI call, the operation otherwise
CallsIssued ==
    [i \in DOMAIN AllCalls |->
        IF IsAICall(AllCalls[i]) THEN AllCalls[i].fn ELSE AllCalls[i].op]

PassOrder == <<"habit_series_creative", "habit_series_structure", "json_conversion">>

IsPrefix(s, t) == Len(s) =< Len(t) /\ \A i \in DOMAIN s : s[i] = t[i]

\* positions of the trace where an operation was called, answered, rejected
Where(e, op) == {i \in DOMAIN trace : trace[i].e = e /\ trace[i].op = op}

\* the number of AI passes that have answered before position i of the trace
PassesAnsweredBefore(i) ==
    Cardinality({j \in Where("return", "generateAIResponse") : j < i})

PassedGuards ==
    inv > 0 /\ ~(outcome.kind = "threw" /\ outcome.stage \in {"dependencies", "payload"})

---------------------------------------------------------------------------
\* C1: an invocation that passes the entry guards issues its AI calls in the
\* order creative, structure, normalization whatever the request; a pass is
\* issued only when every earlier pass has answered; an invocation that
\* returns a result has made exactly three AI calls, one per pass.
C1_PassOrder ==
    /\ IsPrefix(PassesIssued, PassOrder)
    /\ PassedGuards => Len(PassesIssued) >= 1
    /\ \A k \in DOMAIN AIEvents :
          /\ (k % 2 = 1) => AIEvents[k].e = "call"
          /\ (k % 2 = 0) => AIEvents[k].e \in {"return", "throw"}
          /\ AIEvents[k].e = "throw" => k = Len(AIEvents)
    /\ outcome.kind = "returned" =>
          /\ PassesIssued = PassOrder
          /\ Cardinality(Where("return", "generateAIResponse")) = 3

\* an invocation returned a result after its three passes
C1_Witness ==
    /\ outcome.kind = "returned"
    /\ PassesIssued = PassOrder
    /\ Get(payload, "language") = Str(<<"e", "s">>)

---------------------------------------------------------------------------
\* the calls an invocation has made when it fails at a stage
CallsUpTo(stage) ==
    CASE stage \in {"dependencies", "payload"} -> <<>>
      [] stage = "creative" -> SubSeq(PassOrder, 1, 1)
      [] stage = "structure" -> SubSeq(PassOrder, 1, 2)
      [] stage \in {"schema", "parse", "validate", "entity"} -> PassOrder
      [] stage = "persist" -> PassOrder \o <<"createFromAI">>
      [] stage = "increment" -> PassOrder \o <<"createFromAI", "incrementActiveSeries">>

\* C2: fail-fast.  A rejected call is the last thing an invocation does and
\* its error is the error the invocation ends with; an invocation that ended
\* with the failure of a stage has made the calls up to that stage and no
\* later one (no later AI pass, no persistence, no user-state update), and
\* has returned no result.
C2_FailFast ==
    /\ \A i \in DOMAIN trace :
          trace[i].e = "throw" =>
             /\ i = Len(trace)
             /\ pc = "done"
             /\ outcome.kind = "threw"
             /\ outcome.error = trace[i].error
    /\ outcome.kind = "threw" =>
          /\ pc = "done"
          /\ CallsIssued = CallsUpTo(outcome.stage)
          /\ outcome.stage \notin {"persist", "increment"} =>
                ~\E a \in store : a.entity.id = ToString(inv)

\* the structure pass was rejected: two AI calls, nothing after them
C2_Witness ==
    /\ outcome.kind = "threw"
    /\ outcome.stage = "structure"
    /\ Len(trace) = 4
    /\ trace[4].e = "throw"

\* the entities the repository is given are built from well-formed data
NonBlank(x) ==
    /\ x.t = "string"
    /\ \E i \in DOMAIN x.v : x.v[i] \notin Whitespace

WellFormedEntity(entity) ==
    /\ NonBlank(entity.title)
    /\ NonBlank(entity.description)
    /\ Len(entity.actions) \in {3, 4, 5}
    /\ \A i \in DOMAIN entity.actions :
          /\ NonBlank(entity.actions[i].name)
          /\ NonBlank(entity.actions[i].description)
          /\ NonBlank(entity.actions[i].difficulty)

\* the content the normalization pass answered with
SchemaContent == trace[CHOOSE i \in Where("return", "generateAIResponse") :
                          PassesAnsweredBefore(i) = 2].content

\* C3: createFromAI is called only when the three passes have answered, the
\* normalization pass's content has been parsed (from a JSON text) or taken
\* as it is (a value that is no string), and validateAIOutput has accepted
\* that value; the entity handed over, and every stored entity, is built
\* from data that passes the validator.
C3_PersistOnlyValidated ==
    /\ \A i \in Where("call", "createFromAI") :
          /\ PassesAnsweredBefore(i) = 3
          /\ IF TypeOf(SchemaContent) = "string"
                THEN /\ JSONparse(SchemaContent.text).ok
                     /\ parsed = JSONparse(SchemaContent.text).value
                ELSE parsed = SchemaContent
          /\ validateAIOutput(parsed).valid
          /\ trace[i].entity.title = Get(parsed, "title")
          /\ Len(trace[i].entity.actions) = Len(Get(parsed, "actions").v)
          /\ WellFormedEntity(trace[i].entity)
    /\ \A a \in store : WellFormedEntity(a.entity)

\* the repository was called for an output that arrived as a JSON text
C3_Witness ==
    /\ Where("call", "createFromAI") # {}
    /\ "text" \in DOMAIN SchemaContent
    /\ store # {}

\* C4: when the normalization pass answers with a string that is no JSON
\* text, the invocation fails with ValidationError 'AI output is not valid
\* JSON'; no value is parsed from the content in another way, and neither
\* createFromAI nor incrementActiveSeries is called.
C4_MalformedOutput ==
    (/\ Cardinality(Where("return", "generateAIResponse")) = 3
     /\ TypeOf(SchemaContent) = "string"
     /\ ~JSONparse(SchemaContent.text).ok)
    => /\ pc = "done"
       /\ outcome = Threw(ValidationError("AI output is not valid JSON"), "parse")
       /\ parsed = Undefined
       /\ Where("call", "createFromAI") = {}
       /\ Where("call", "incrementActiveSeries") = {}

\* the normalization pass answered with a JSON text wrapped in prose
C4_Witness ==
    /\ Cardinality(Where("return", "generateAIResponse")) = 3
    /\ SchemaContent = Text(JsonPrefixed)
    /\ outcome.kind = "threw"

\* C5 (as claimed): an invocation that ends in an error raised after the
\* entry guards has left no artifact of its own in the repository.
C5_NothingPersistedOnError ==
    (/\ pc = "done"
     /\ outcome.kind = "threw"
     /\ outcome.stage \notin {"dependencies", "payload"})
    => ~\E a \in store : a.entity.id = ToString(inv)

\* C6 (as claimed): when incrementActiveSeries rejects after createFromAI
\* answered, the invocation still returns the persisted artifact's DTO and
\* the artifact stays stored.
C6_UserStateFailureNotPropagated ==
    Where("throw", "incrementActiveSeries") # {}
    => /\ outcome.kind = "returned"
       /\ outcome.value = toDTO(persisted)
       /\ \E a \in store : a.entity = persisted

\* C7: no invocation calls createFromAI more than once; an invocation that
\* returns a result has called it exactly once; when the repository rejects,
\* the call is not repeated and the invocation ends with the repository's
\* own error.
C7_PersistOnce ==
    /\ Cardinality(Where("call", "createFromAI")) =< 1
    /\ outcome.kind = "returned" => Cardinality(Where("call", "createFromAI")) = 1
    /\ \A i \in Where("throw", "createFromAI") :
          /\ i = Len(trace)
          /\ outcome.kind = "threw"
          /\ outcome.error = trace[i].error
          /\ outcome.error \in RepositoryErrors
          /\ Cardinality(Where("call", "createFromAI")) = 1

\* the repository rejected its one call
C7_Witness ==
    /\ Where("throw", "createFromAI") # {}
    /\ Cardinality(Where("call", "createFromAI")) = 1
    /\ pc = "done"

\* C8 (as claimed): before createFromAI is called, isHabitSeriesFinal has
\* been evaluated exactly once, after the normalization pass answered, and
\* it approved.
C8_PersistenceDecided ==
    \A i \in Where("call", "createFromAI") :
       /\ Cardinality(Where("call", "isHabitSeriesFinal")) = 1
       /\ \A j \in Where("call", "isHabitSeriesFinal") :
             /\ j < i
             /\ PassesAnsweredBefore(j) = 3
             /\ isHabitSeriesFinal(trace[j].fn)

---------------------------------------------------------------------------
(* The validator's contract, stated without the validator's control flow.  *)

\* a non-null object (arrays are objects)
IsObject(x) == x.t \in {"object", "array"}

\* an array of 3, 4 or 5 elements
IsArrayOf3To5(x) == x.t = "array" /\ Len(x.v) \in {3, 4, 5}

WellFormedAction(a) ==
    /\ IsObject(a)
    /\ NonBlank(Get(a, "name"))
    /\ NonBlank(Get(a, "description"))
    /\ NonBlank(Get(a, "difficulty"))

WellFormed(d) ==
    /\ IsObject(d)
    /\ NonBlank(Get(d, "title"))
    /\ NonBlank(Get(d, "description"))
    /\ IsArrayOf3To5(Get(d, "actions"))
    /\ \A i \in DOMAIN Get(d, "actions").v : WellFormedAction(Get(d, "actions").v[i])

\* C9: validateAIOutput returns valid exactly for the well-formed
\* candidates: a non-null object with non-blank strings title and
\* description and an array actions of 3, 4 or 5 non-null objects, each with
\* non-blank strings name, description and difficulty.
C9_AcceptsExactlyWellFormed ==
    vresult # NotCalled => (vresult.valid <=> WellFormed(vdata))

\* five well-formed actions are accepted
C9_Witness ==
    /\ vresult = Valid
    /\ Len(Get(vdata, "actions").v) = 5

\* The rules in the order of the claim: 1 object, 2 title, 3 description,
\* 4 actions is an array, 5 its length, then for the action at index i the
\* rules 10 * (i + 1) + 1 object, + 2 name, + 3 description, + 4 difficulty.
ElementsOf(x) == IF x.t = "array" THEN x.v ELSE <<>>

TopRulesViolated(d) ==
    {r \in 1..5 :
        \/ r = 1 /\ ~IsObject(d)
        \/ r = 2 /\ ~NonBlank(Get(d, "title"))
        \/ r = 3 /\ ~NonBlank(Get(d, "description"))
        \/ r = 4 /\ Get(d, "actions").t # "array"
        \/ r = 5 /\ ~IsArrayOf3To5(Get(d, "actions"))}

ActionRulesViolated(elements) ==
    {r \in {10 * i + j : i \in DOMAIN elements, j \in 1..4} :
        LET a == elements[r \div 10]
        IN  \/ r % 10 = 1 /\ ~IsObject(a)
            \/ r % 10 = 2 /\ ~NonBlank(Get(a, "name"))
            \/ r % 10 = 3 /\ ~NonBlank(Get(a, "description"))
            \/ r % 10 = 4 /\ ~NonBlank(Get(a, "difficulty"))}

RulesViolated(d) ==
    TopRulesViolated(d) \cup ActionRulesViolated(ElementsOf(Get(d, "actions")))

RuleMessage(r) ==
    CASE r = 1 -> "Output is not an object"
      [] r = 2 -> "Invalid or missing title"
      [] r = 3 -> "Invalid or missing description"
      [] r = 4 -> "actions must be an array"
      [] r = 5 -> "actions length out of bounds"
      [] r > 10 /\ r % 10 = 1 -> "actions[" \o ToString((r \div 10) - 1) \o "] is not an object"
      [] r > 10 /\ r % 10 = 2 -> "actions[" \o ToString((r \div 10) - 1) \o "].name invalid"
      [] r > 10 /\ r % 10 = 3 -> "actions[" \o ToString((r \div 10) - 1) \o "].description invalid"
      [] r > 10 /\ r % 10 = 4 -> "actions[" \o ToString((r \div 10) - 1) \o "].difficulty invalid"

Least(S) == CHOOSE m \in S : \A n \in S : m =< n

\* C10: the validator reports the violated rule that comes first in the
\* order object, title, description, actions is an array, actions length,
\* then the actions by ascending index and within an action object, name,
\* description, difficulty; and nothing else.
C10_ReportsEarliestViolation ==
    vresult # NotCalled =>
        IF RulesViolated(vdata) = {} THEN vresult = Valid
        ELSE vresult = Invalid(RuleMessage(Least(RulesViolated(vdata))))

\* two ill-formed actions, the one at the lower index with three faults:
\* its name is reported
C10_Witness ==
    /\ vresult = Invalid("actions[1].name invalid")
    /\ {22, 23, 24, 41} \subseteq RulesViolated(vdata)

---------------------------------------------------------------------------
\* x is one of the values of the Difficulty enumeration
InEnumeration(x) == \E k \in DOMAIN Difficulty : x = Difficulty[k]

\* C11 (as claimed): every candidate validateAIOutput accepts has, in each of
\* its actions, a difficulty that is a value of the Difficulty enumeration
\* (LOW, MEDIUM, HIGH), so no artifact with another difficulty becomes
\* eligible for persistence.
C11_DifficultyInEnumeration ==
    (vresult # NotCalled /\ vresult.valid) =>
        \A i \in DOMAIN Get(vdata, "actions").v :
            InEnumeration(Get(Get(vdata, "actions").v[i], "difficulty"))

---------------------------------------------------------------------------
---------------------------------------------------------------------------
(* The router's contract, stated on the characters of the identifier.      *)

\* the identifier s begins with the characters p, compared one by one
HasPrefix(s, p) ==
    /\ Len(s) >= Len(p)
    /\ \A k \in 1..Len(p) : SubSeq(s, k, k) = SubSeq(p, k, k)

IsModelName(m) == m.t = "string" /\ m.text # ""

OpenAIFamily(m) == HasPrefix(m.text, "gpt-") \/ HasPrefix(m.text, "o1-")
GeminiFamily(m) == HasPrefix(m.text, "gemini-")

\* a string that is not empty and that no family claims
Unroutable(m) == IsModelName(m) /\ ~OpenAIFamily(m) /\ ~GeminiFamily(m)

\* the error is the unknown-provider error
IsUnknownProvider(error) ==
    error.class = "Error" /\ HasPrefix(error.message, "UNKNOWN_MODEL_PROVIDER")

\* C13: getAdapterForModel returns the OpenAI adapter exactly for the
\* identifiers that begin with gpt- or o1-, the Gemini adapter exactly for
\* those that begin with gemini-, and throws the unknown-provider error for
\* every other non-empty string; an empty string and a value that is no
\* string are rejected (INVALID_MODEL); the comparison is case-sensitive:
\* gpt-4o-mini and o1-preview give OpenAI, gemini-2.5-flash and
\* gemini-2.5-pro give Gemini, GPT-4, Gemini-pro and mistral-large fail.
C13_ResolvesByPrefix ==
    (rcall # NotCalled /\ rcall.op = "getAdapterForModel") =>
        LET m == rcall.arg
        IN  IF IsModelName(m)
                THEN /\ (rresult.ok /\ rresult.adapter = OpenAIAdapter) <=> OpenAIFamily(m)
                     /\ (rresult.ok /\ rresult.adapter = GeminiAdapter) <=> GeminiFamily(m)
                     /\ (~rresult.ok) <=> Unroutable(m)
                     /\ (~rresult.ok) => IsUnknownProvider(rresult.error)
                     /\ m.text \in {"gpt-4o-mini", "o1-preview"} =>
                           rresult = [ok |-> TRUE, adapter |-> OpenAIAdapter]
                     /\ m.text \in {"gemini-2.5-flash", "gemini-2.5-pro"} =>
                           rresult = [ok |-> TRUE, adapter |-> GeminiAdapter]
                     /\ m.text \in {"GPT-4", "Gemini-pro", "mistral-large"} =>
                           ~rresult.ok
            ELSE rresult = [ok |-> FALSE, error |-> InvalidModel]

\* an identifier that differs from an OpenAI one by its case was rejected
C13_Witness ==
    /\ rcall = Called("getAdapterForModel", Text("GPT-4"))
    /\ ~rresult.ok
    /\ IsUnknownProvider(rresult.error)

\* the model the caller of an entry point supplied, if any
SuppliedModel ==
    IF rcall.op = "callAI" THEN Get(rcall.arg, "model") ELSE Undefined

\* C14 (as claimed): a call on callAI or callAIWithFunctionType is handed to
\* an adapter only when the caller supplied a model identifier of that
\* adapter's family; a call without a model identifier, or with one no
\* family claims, is handed to no adapter and fails.
C14_NoDefaultProvider ==
    (rcall # NotCalled /\ rcall.op \in {"callAI", "callAIWithFunctionType"}) =>
        /\ \A i \in DOMAIN vendor :
              /\ IsModelName(SuppliedModel)
              /\ vendor[i].adapter = OpenAIAdapter => OpenAIFamily(SuppliedModel)
              /\ vendor[i].adapter = GeminiAdapter => GeminiFamily(SuppliedModel)
        /\ (~IsModelName(SuppliedModel) \/ Unroutable(SuppliedModel)) =>
              /\ vendor = <<>>
              /\ ~rresult.ok

---------------------------------------------------------------------------
\* C15: when the pass an invocation issues is configured with a model no
\* family claims, no call is handed to an adapter for that pass (the adapter
\* calls are those of the earlier passes), no later pass is issued, nothing
\* is persisted, and the invocation ends with the unknown-provider error the
\* router threw.
C15_UnroutableFailsBeforeVendor ==
    /\ Len(vendor) =< Len(AICalls)
    /\ \A i \in DOMAIN vendor :
          /\ vendor[i].arg = getModelConfig(PassOrder[i])
          /\ ~Unroutable(Get(vendor[i].arg, "model"))
    /\ \A k \in DOMAIN AICalls :
          Unroutable(models[AICalls[k].fn]) =>
             /\ Len(AICalls) = k
             /\ Len(vendor) = k - 1
             /\ Where("return", "generateAIResponse") \subseteq 1..(2 * k - 2)
             /\ Where("call", "createFromAI") = {}
             /\ pc = "done" =>
                   /\ outcome.kind = "threw"
                   /\ IsUnknownProvider(outcome.error)
                   /\ trace[Len(trace)] = Rejected("generateAIResponse", outcome.error)
             /\ pc # "done" => PassAwaited = AICalls[k].fn

\* the structure pass was configured with claude-3: one adapter call, that
\* of the creative pass, and the unknown-provider error
C15_Witness ==
    /\ models["habit_series_structure"] = Text("claude-3")
    /\ pc = "done"
    /\ Len(AICalls) = 2
    /\ Len(vendor) = 1
    /\ outcome.kind = "threw"
    /\ IsUnknownProvider(outcome.error)

---------------------------------------------------------------------------
\* C16: isHabitSeriesFinal returns true for habit_series_structure and for
\* no other identifier; it returns false for habit_series_creative and for
\* json_conversion.
C16_FinalOnlyForStructure ==
    pfinal # NotCalled =>
        /\ pfinal.value <=> ptype = "habit_series_structure"
        /\ ptype \in {"habit_series_creative", "json_conversion"} => ~pfinal.value
        /\ ptype # "habit_series_structure" => ~pfinal.value

\* the policy approved the structure pass
C16_Witness ==
    /\ ptype = "habit_series_structure"
    /\ pfinal = [called |-> TRUE, value |-> TRUE]

---------------------------------------------------------------------------
\* the payload has no usable field k: no payload, no such field, or an
\* empty one
Lacks(p, k) ==
    \/ p.t # "object"
    \/ k \notin DOMAIN p.v
    \/ ~Truthy(p.v[k])

MissingDependency == Threw(ValidationError("Missing required dependencies"), "dependencies")
MissingPayload == Threw(ValidationError("Missing required payload fields"), "payload")

\* C17: an invocation with a collaborator absent ends at once with the
\* missing-dependencies error, whatever its payload; one with every
\* collaborator and a payload without language or testData ends at once with
\* the missing-payload error; both end before any AI call and any adapter
\* call; every other invocation issues the creative pass.
C17_EntryGuard ==
    inv > 0 =>
        /\ deps # Collaborators =>
              /\ pc = "done" /\ outcome = MissingDependency
              /\ trace = <<>> /\ vendor = <<>>
        /\ (deps = Collaborators
            /\ (Lacks(payload, "language") \/ Lacks(payload, "testData"))) =>
              /\ pc = "done" /\ outcome = MissingPayload
              /\ trace = <<>> /\ vendor = <<>>
        /\ (deps = Collaborators
            /\ ~Lacks(payload, "language") /\ ~Lacks(payload, "testData")) =>
              /\ trace # <<>>
              /\ IsAICall(trace[1])
              /\ trace[1].fn = "habit_series_creative"
              /\ outcome # MissingDependency /\ outcome # MissingPayload

\* a call without aiProvider and without payload: the missing-dependencies
\* error
C17_Witness ==
    /\ inv > 0
    /\ "aiProvider" \notin deps
    /\ payload = Null
    /\ outcome = MissingDependency
    /\ trace = <<>>

---------------------------------------------------------------------------
\* the cause of a failure, among those of the claim
FailureCause(o) ==
    CASE o.stage \in {"dependencies", "payload", "parse", "validate"} -> o.stage
      [] o.stage \in {"creative", "structure", "schema"} ->
            IF IsUnknownProvider(o.error) THEN "unroutable" ELSE "provider"
      [] OTHER -> "other"

\* C18 (as claimed): two invocations that fail for different causes (missing
\* collaborator, invalid payload, unroutable model, provider failure,
\* unparseable output, contract violation) end with errors of different
\* kinds (classes): here for an invocation and the one made after it.
C18_DistinctKinds ==
    [][ (/\ outcome.kind = "threw" /\ outcome'.kind = "threw"
         /\ inv' = inv + 1
         /\ FailureCause(outcome) # "other" /\ FailureCause(outcome') # "other"
         /\ FailureCause(outcome) # FailureCause(outcome'))
        => outcome.error.class # outcome'.error.class ]_vars

---------------------------------------------------------------------------
\* C19 (as claimed): an invocation that passes the entry guards calls the
\* eligibility pre-check exactly once, before its first AI call.
C19_PreCheckOnce ==
    PassedGuards =>
        /\ Cardinality(Where("call", "checkEligibility")) = 1
        /\ \A i \in Where("call", "checkEligibility") :
              \A j \in Where("call", "generateAIResponse") : i < j

---------------------------------------------------------------------------
\* C20 (as claimed): an invocation whose three passes answered, the last
\* with a JSON text the validator accepts, and whose repository and
\* user-state calls did not reject, ends by returning a DTO with the parsed
\* title and the parsed actions, 3 to 5 of them, in their order.
C20_EndToEnd ==
    (/\ pc = "done"
     /\ Cardinality(Where("return", "generateAIResponse")) = 3
     /\ TypeOf(SchemaContent) = "string"
     /\ JSONparse(SchemaContent.text).ok
     /\ validateAIOutput(JSONparse(SchemaContent.text).value).valid
     /\ Where("throw", "createFromAI") = {}
     /\ Where("throw", "incrementActiveSeries") = {})
    => /\ outcome.kind = "returned"
       /\ outcome.value.title = Get(parsed, "title")
       /\ Len(outcome.value.actions) = Len(Get(parsed, "actions").v)
       /\ Len(outcome.value.actions) \in {3, 4, 5}
       /\ \A i \in DOMAIN outcome.value.actions :
             /\ outcome.value.actions[i].name = Get(Get(parsed, "actions").v[i], "name")
             /\ outcome.value.actions[i].description =
                   Get(Get(parsed, "actions").v[i], "description")
             /\ outcome.value.actions[i].difficulty =
                   Get(Get(parsed, "actions").v[i], "difficulty")

---------------------------------------------------------------------------
\* the content the n-th pass of the running invocation answered with
ContentOfPass(n) ==
    trace[CHOOSE i \in Where("return", "generateAIResponse") :
             PassesAnsweredBefore(i) = n - 1].content

\* C23: the structure pass is issued with the content the creative pass of
\* the same invocation answered with, the normalization pass with the content
\* the structure pass answered with and HABIT_SERIES_SCHEMA, and the value
\* parsed is the content the normalization pass answered with (parsed when
\* it is a JSON text).
C23_DataFlowsForward ==
    /\ Len(AICalls) >= 2 =>
          /\ PassesAnsweredBefore(Len(trace) + 1) >= 1
          /\ AICalls[2].input.rawText = ContentOfPass(1)
    /\ Len(AICalls) >= 3 =>
          /\ PassesAnsweredBefore(Len(trace) + 1) >= 2
          /\ AICalls[3].input =
                [content |-> ContentOfPass(2), schema |-> "HABIT_SERIES_SCHEMA"]
    /\ parsed # Undefined =>
          /\ PassesAnsweredBefore(Len(trace) + 1) = 3
          /\ parsed = IF TypeOf(ContentOfPass(3)) = "string"
                          THEN JSONparse(ContentOfPass(3).text).value
                      ELSE ContentOfPass(3)

\* three passes answered with three different texts, the last one parsed
C23_Witness ==
    /\ Len(AICalls) = 3
    /\ parsed = Series(3)
    /\ ContentOfPass(1) = Text("Read Daily. Three actions: ...")
    /\ ContentOfPass(2) = Text("TITLE Read Daily ACTIONS 1 2 3")
    /\ ContentOfPass(3) = Text(JsonSeries3)

---------------------------------------------------------------------------
\* C24: an invocation calls incrementActiveSeries at most once, and only
\* after createFromAI has returned; when createFromAI rejects,
\* incrementActiveSeries is not called and the invocation ends with the
\* repository's error.
C24_IncrementAfterPersist ==
    /\ Cardinality(Where("call", "incrementActiveSeries")) =< 1
    /\ \A i \in Where("call", "incrementActiveSeries") :
          /\ \E j \in Where("return", "createFromAI") : j < i
          /\ Where("throw", "createFromAI") = {}
    /\ \A i \in Where("throw", "createFromAI") :
          /\ Where("call", "incrementActiveSeries") = {}
          /\ pc = "done"
          /\ outcome = Threw(trace[i].error, "persist")

\* a user's second invocation failed to persist after the first had been
\* counted: the counter stays at one
C24_Witness ==
    /\ inv = 2
    /\ Where("throw", "createFromAI") # {}
    /\ Where("call", "incrementActiveSeries") = {}
    /\ activeSeries[userId] = 1
    /\ outcome.kind = "threw"

---------------------------------------------------------------------------
\* C25: each pass is handed to its adapter with the configuration of its own
\* identifier: temperature between 0 and 1, maxTokens positive, temperature,
\* maxTokens and forceJson those of the policy table for that identifier;
\* the normalization pass has temperature 0 and forceJson true, the
\* structure pass temperature 0, and a pass with a temperature other than 0
\* is the creative pass.
C25_PassConfig ==
    \A i \in DOMAIN vendor :
        LET c == vendor[i].arg
            policy == getHabitSeriesAIConfig(PassOrder[i])
        IN  /\ Get(c, "model") = models[PassOrder[i]]
            /\ \A k \in {"temperature", "maxTokens", "forceJson"} :
                  Get(c, k) = Get(policy, k)
            /\ Get(c, "temperature").tenths \in 0..10
            /\ Get(c, "maxTokens").v > 0
            /\ PassOrder[i] = "json_conversion" =>
                  /\ Get(c, "temperature").tenths = 0
                  /\ Get(c, "forceJson") = [t |-> "boolean", v |-> TRUE]
            /\ PassOrder[i] = "habit_series_structure" =>
                  Get(c, "temperature").tenths = 0
            /\ Get(c, "temperature").tenths # 0 =>
                  PassOrder[i] = "habit_series_creative"

\* the three passes were handed over, the creative one at 0.8, the
\* normalization one at 0 with JSON forced
C25_Witness ==
    /\ Len(vendor) = 3
    /\ Get(vendor[1].arg, "temperature") = Tenths(8)
    /\ Get(vendor[3].arg, "temperature") = Tenths(0)
    /\ Get(vendor[3].arg, "forceJson") = [t |-> "boolean", v |-> TRUE]

---------------------------------------------------------------------------
\* C26: with the models of the policy table, every pass issued is handed to
\* an adapter, the creative and structure passes to the Gemini adapter and
\* the normalization pass to the OpenAI adapter, and no invocation ends with
\* the unknown-provider error.
C26_PolicyRoutable ==
    models = PolicyModels =>
        /\ \A f \in DOMAIN PolicyModels : ~Unroutable(PolicyModels[f])
        /\ Len(vendor) = Len(AICalls)
        /\ \A i \in DOMAIN vendor :
              vendor[i].adapter =
                 IF PassOrder[i] = "json_conversion" THEN OpenAIAdapter
                 ELSE GeminiAdapter
        /\ outcome.kind = "threw" => ~IsUnknownProvider(outcome.error)

\* with the models of the policy table an invocation returned after two
\* Gemini calls and one OpenAI call
C26_Witness ==
    /\ models = PolicyModels
    /\ outcome.kind = "returned"
    /\ Len(vendor) = 3
    /\ vendor[1].adapter = GeminiAdapter
    /\ vendor[2].adapter = GeminiAdapter
    /\ vendor[3].adapter = OpenAIAdapter

---------------------------------------------------------------------------
\* what a router that has resolved nothing answers for an identifier
FreshResolution(m) ==
    IF ~IsModelName(m) THEN [ok |-> FALSE, error |-> InvalidModel]
    ELSE IF OpenAIFamily(m) THEN [ok |-> TRUE, adapter |-> OpenAIAdapter]
    ELSE IF GeminiFamily(m) THEN [ok |-> TRUE, adapter |-> GeminiAdapter]
    ELSE [ok |-> FALSE, error |-> UnknownModelProvider(m)]

\* C27: getAdapterForModel leaves the router's fields as the constructor
\* set them and keeps nothing of a resolution; every resolution answers what
\* a router that has resolved nothing answers for that identifier, so two
\* resolutions of one identifier answer the same whatever was resolved
\* between them.
C27_ResolutionIsPure ==
    /\ router = [geminiAdapter |-> GeminiAdapter, openaiAdapter |-> OpenAIAdapter]
    /\ \A i \in DOMAIN rlog : rlog[i].result = FreshResolution(rlog[i].arg)
    /\ \A i, j \in DOMAIN rlog :
          rlog[i].arg = rlog[j].arg => rlog[i].result = rlog[j].result

\* a router that resolved gpt-4o-mini resolved gemini-2.5-pro next
C27_Witness ==
    /\ Len(rlog) = 2
    /\ rlog[1] = [arg |-> Text("gpt-4o-mini"),
                  result |-> [ok |-> TRUE, adapter |-> OpenAIAdapter]]
    /\ rlog[2] = [arg |-> Text("gemini-2.5-pro"),
                  result |-> [ok |-> TRUE, adapter |-> GeminiAdapter]]

---------------------------------------------------------------------------
\* substring
Contains(text, part) ==
    \E k \in 1..(Len(text) - Len(part) + 1) :
        SubSeq(text, k, k + Len(part) - 1) = part

\* the free texts a user supplies in a payload
UserFields(p) ==
    {p.assistantContext} \cup {p.testData[i][2] : i \in DOMAIN p.testData}

\* C21 (as claimed): every free text of the payload (each testData answer
\* and assistantContext) has passed through sanitizeUserInput when the
\* prompt built from it is sent to the vendor: a text the sanitizer alters
\* does not occur in any prompt sent.
C21_UserTextSanitized ==
    acaller.payload # Undefined =>
        \A i \in DOMAIN alog :
            alog[i].e = "call" =>
                \A f \in UserFields(acaller.payload) :
                    f # sanitizeUserInput(f) =>
                        ~Contains(alog[i].request.prompt, f)

---------------------------------------------------------------------------
\* what each message contributes to the prompt, as claimed
ClaimedPart(m) ==
    (CASE m.role = "system" -> "[SYSTEM INSTRUCTIONS]\n"
       [] m.role = "assistant" -> "[ASSISTANT]\n"
       [] OTHER -> "")
    \o (IF m.role = "user" THEN sanitizeUserInput(m.content) ELSE m.content)

\* C28: the prompt GeminiAdapter.callAI sends is made of one part per
\* message, in the order of the messages, separated by an empty line; the
\* part of a message of role user is its sanitized content, the part of any
\* other message is its content unchanged (after the role tag of a system
\* or assistant message); the caller's array is after the call what was
\* passed.
C28_SanitizesUserMessagesOnly ==
    acall # NotCalled =>
        /\ acaller.messages = acall.arg.messages
        /\ IsArray(acall.arg.messages) =>
              LET m == acall.arg.messages.v
              IN  /\ Len(alog) >= 1
                  /\ alog[1].e = "call"
                  /\ alog[1].request.prompt =
                        join([i \in DOMAIN m |-> ClaimedPart(m[i])], "\n\n")

\* a system message and a user message with the same markup: the first is
\* sent as it is, the second without the delimiters
C28_Witness ==
    /\ acall # NotCalled
    /\ acaller.messages = Arr(<<[role |-> "system", content |-> "<b>Hi</b>"],
                                [role |-> "user", content |-> "<b>Hi</b>"]>>)
    /\ alog[1].request.prompt = "[SYSTEM INSTRUCTIONS]\n<b>Hi</b>\n\nbHi/b"

---------------------------------------------------------------------------
\* the failure a thrown provider error wraps
Cause ==
    IF Len(alog) = 0 THEN MapOfUndefined
    ELSE IF alog[Len(alog)].e = "throw" THEN alog[Len(alog)].error
    ELSE alog[Len(alog)].result.error

\* C29: a call of GeminiAdapter.callAI issues at most one generateContent
\* request; it returns a response only when that request resolved with a
\* text; when the request rejects, or anything else in the call throws, it
\* throws an Error whose message is Gemini provider error: followed by the
\* message of what was thrown, returns nothing, and issues no request after
\* the failure.
C29_SingleAttempt ==
    /\ Cardinality({i \in DOMAIN alog : alog[i].e = "call"}) =< 1
    /\ apc = "done" <=> aresult.kind \in {"returned", "threw"}
    /\ aresult.kind = "returned" =>
          /\ Len(alog) = 2
          /\ alog[2].e = "return"
          /\ alog[2].result.ok
          /\ aresult.value.content = alog[2].result.text
    /\ aresult.kind = "threw" =>
          /\ aresult.error = Error("Gemini provider error: " \o Cause.message)
          /\ "value" \notin DOMAIN aresult
          /\ Len(alog) > 0 => alog[Len(alog)].e # "call"

\* the one request was rejected with fetch failed: the provider error
C29_Witness ==
    /\ apc = "done"
    /\ Len(alog) = 2
    /\ alog[2].e = "throw"
    /\ aresult = [kind |-> "threw",
                  error |-> Error("Gemini provider error: fetch failed")]

---------------------------------------------------------------------------
\* round(n / d) and ceil(n / d), by their defining inequalities
RoundedQuotient(n, d) ==
    CHOOSE k \in (n \div d)..(n \div d + 1) :
        2 * d * k - d =< 2 * n /\ 2 * n < 2 * d * k + d
CeilingQuotient(n, d) ==
    CHOOSE k \in (n \div d)..(n \div d + 1) : d * (k - 1) < n /\ n =< d * k

\* tokens(t) of the claim: round(length / 3.7), 0 for what is no string
ClaimedTokens(text) ==
    IF text.t = "string" THEN RoundedQuotient(10 * Length(text), 37) ELSE 0

---------------------------------------------------------------------------
IsAnswer(ev) == ev.e # "call"

\* what an invocation was called with and what its collaborators (and the
\* entity factory) answered so far
InputsOf(l) ==
    [userId |-> l.userId, payload |-> l.payload, deps |-> l.deps,
     answers |-> SelectSeq(l.trace, IsAnswer),
     factoryThrew |-> l.outcome.kind = "threw" /\ l.outcome.stage = "entity"]

\* the calls an invocation made, those of the passes with their inputs
CallsOf(l) ==
    LET calls == SelectSeq(l.trace, IsCall)
    IN  [i \in DOMAIN calls |->
            IF IsAICall(calls[i]) THEN calls[i]
            ELSE [e |-> "call", op |-> calls[i].op]]

\* how an invocation ended, without the identifier and the dates of the DTO
OutcomeOf(l) ==
    IF l.outcome.kind = "returned"
        THEN [kind |-> "returned", title |-> l.outcome.value.title,
              description |-> l.outcome.value.description,
              actions |-> l.outcome.value.actions]
    ELSE l.outcome

\* C22: whatever the interleaving of two invocations on one router, two
\* invocations called with the same arguments and given the same answers
\* are at the same place, have made the same calls (the passes with the
\* same inputs, handed to the same adapters) and have the same outcome,
\* whether one ran before the other started or their steps alternated; and
\* the router's fields are those its constructor set.
C22_InvocationsIndependent ==
    /\ router = [geminiAdapter |-> GeminiAdapter, openaiAdapter |-> OpenAIAdapter]
    /\ InputsOf(Locals) = InputsOf(parked) =>
          /\ pc = parked.pc
          /\ CallsOf(Locals) = CallsOf(parked)
          /\ vendor = parked.vendor
          /\ parsed = parked.parsed
          /\ OutcomeOf(Locals) = OutcomeOf(parked)

\* two invocations with the same arguments and answers, the second called
\* while the first awaited its creative pass, both returned
C22_Witness ==
    /\ inv = 2
    /\ InputsOf(Locals) = InputsOf(parked)
    /\ outcome.kind = "returned"
    /\ parked.outcome.kind = "returned"
    /\ outcome.value.id = parked.outcome.value.id

---------------------------------------------------------------------------
\* the strings of the accounting's family that are no shorter than n
TextsFrom(n) == {t \in EnergyTexts : t.t = "string" /\ Length(t) >= n}

\* C31: a response returned by GeminiAdapter.callAI names the model of the
\* call's options (gemini-2.5-flash when the options name none), its
\* tokensUsed is round(length / 3.7) of the content alone, tokensUsed and
\* energyConsumed are natural numbers, and energyConsumed is no greater than
\* the energy of the same call with a longer prompt or with a longer
\* response.
C31_ResponseFields ==
    aresult.kind = "returned" =>
        LET response == aresult.value
            requested == Get(acall.arg.options, "model")
            prompt == Text(alog[1].request.prompt)
        IN  /\ response.model = IF requested = Undefined
                                    THEN Text("gemini-2.5-flash")
                                ELSE requested
            /\ response.tokensUsed = ClaimedTokens(response.content)
            /\ response.tokensUsed \in Nat
            /\ response.energyConsumed \in Nat
            /\ \A t \in TextsFrom(Length(prompt)) :
                  response.energyConsumed =<
                     calculateGeminiEnergy(t, response.content).energy
            /\ \A t \in TextsFrom(Length(response.content)) :
                  response.energyConsumed =<
                     calculateGeminiEnergy(prompt, t).energy

\* the structure pass's options and a response of 1136 characters: 307
\* tokens, and an energy of more than 3
C31_Witness ==
    /\ aresult.kind = "returned"
    /\ aresult.value.model = Text("gemini-2.5-pro")
    /\ aresult.value.content = Chars(1136, "z")
    /\ aresult.value.tokensUsed = 307
    /\ aresult.value.energyConsumed > 3

---------------------------------------------------------------------------
\* the entries as "key: value", joined by "; "
RECURSIVE Listed(_)
Listed(entries) ==
    IF entries = <<>> THEN ""
    ELSE entries[1][1] \o ": " \o entries[1][2]
         \o (IF Len(entries) = 1 THEN "" ELSE "; " \o Listed(Tail(entries)))

StartsWith(text, part) ==
    Len(text) >= Len(part) /\ SubSeq(text, 1, Len(part)) = part

\* C33: a call of the builder with language en returns the English system
\* and user text, and a call with any other language the Spanish system
\* and user text; the system message holds the background-context section,
\* with the context in it, exactly when assistantContext has a character
\* that is no whitespace; the user message never holds the section.
C33_LanguageAndContext ==
    \A k \in DOMAIN blog :
        LET arg == blog[k].arg
            system == blog[k].value[1].content
            user == blog[k].value[2].content
            section == "BACKGROUND CONTEXT (for reference only, do not reply to this):\n"
                       \o arg.assistantContext
            visible == \E c \in 1..Len(arg.assistantContext) :
                          SubSeq(arg.assistantContext, c, c) \notin {" ", "\t", "\n"}
        IN  /\ IF arg.language = "en"
                   THEN /\ StartsWith(system, "LANGUAGE CONSTRAINT (MANDATORY)")
                        /\ Contains(system, "ALL OUTPUT MUST BE IN ENGLISH")
                        /\ StartsWith(user, "Test data: ")
               ELSE /\ StartsWith(system, "RESTRICCION DE IDIOMA (OBLIGATORIO)")
                    /\ Contains(system, "TODO EL CONTENIDO DEBE ESTAR EN ESPANOL")
                    /\ StartsWith(user, "Datos del test: ")
            /\ Contains(system, "BACKGROUND CONTEXT") <=> visible
            /\ visible => Contains(system, section)
            /\ ~Contains(user, "BACKGROUND CONTEXT")

\* a locale without a prompt of its own and a context with spaces around
\* its text: the Spanish prompt with the section
C33_Witness ==
    /\ blog # <<>>
    /\ bargs.language = "fr"
    /\ bargs.assistantContext = " Be kind "
    /\ StartsWith(blog[1].value[1].content, "RESTRICCION DE IDIOMA")
    /\ Contains(blog[1].value[1].content, "BACKGROUND CONTEXT")

---------------------------------------------------------------------------
\* the decimal numerals of 0, 1, 2, ...
Numerals == <<"0", "1", "2", "3", "4", "5", "6", "7", "8", "9">>

\* C34: the entity HabitSeries.fromAIOutput(id, input) builds has the title
\* and the description of the input and as many actions as the input, the
\* i-th (from 0) with the name, description and difficulty of the input's
\* i-th action and the identifier <id>_action_<i>; the identifiers of two
\* of its actions differ; its rank is BRONZE, its totalScore 0 and its
\* createdAt equals its lastActivityAt; the DTO of toDTO has the entity's
\* title and description and its actions in number and order.
C34_EntityFromAIOutput ==
    (hentity # NotCalled /\ hentity.ok) =>
        LET entity == hentity.entity
            given == Get(hinput.input, "actions").v
        IN  /\ entity.title = Get(hinput.input, "title")
            /\ entity.description = Get(hinput.input, "description")
            /\ Len(entity.actions) = Len(given)
            /\ \A i \in DOMAIN given :
                  /\ entity.actions[i].name = Get(given[i], "name")
                  /\ entity.actions[i].description = Get(given[i], "description")
                  /\ entity.actions[i].difficulty = Get(given[i], "difficulty")
                  /\ entity.actions[i].id = hinput.id \o "_action_" \o Numerals[i]
            /\ \A i, j \in DOMAIN entity.actions :
                  i # j => entity.actions[i].id # entity.actions[j].id
            /\ entity.rank = "BRONZE"
            /\ entity.totalScore = 0
            /\ entity.createdAt = entity.lastActivityAt
            /\ hdto # NotCalled =>
                  /\ hdto.title = entity.title
                  /\ hdto.description = entity.description
                  /\ Len(hdto.actions) = Len(entity.actions)
                  /\ \A i \in DOMAIN entity.actions :
                        /\ hdto.actions[i].name = entity.actions[i].name
                        /\ hdto.actions[i].description = entity.actions[i].description
                        /\ hdto.actions[i].difficulty = entity.actions[i].difficulty

\* an output whose three actions are rest, read, read: the entity and its
\* DTO list them in that order, the third as hs1_action_2
C34_Witness ==
    /\ hdto # NotCalled
    /\ hinput.id = "hs1"
    /\ Len(hentity.entity.actions) = 3
    /\ hentity.entity.actions[3].id = "hs1_action_2"
    /\ hdto.actions[1].name = Str(<<"r", "e", "s", "t">>)
    /\ hdto.actions[2].name = Str(<<"r", "e", "a", "d">>)
    /\ hdto.actions[3].name = hdto.actions[2].name

---------------------------------------------------------------------------
\* the calls of the running invocation to one collaborator operation
CallsTo(op) == Cardinality(Where("call", op))

\* validateAIOutput reached its loop over data.actions
LoopEntered(data) ==
    LET verdict == validateAIOutput(data)
    IN  verdict.valid
        \/ verdict.error \notin {"Output is not an object",
                                 "Invalid or missing title",
                                 "Invalid or missing description",
                                 "actions must be an array",
                                 "actions length out of bounds"}

\* an invocation makes at most three AI calls, one persistence call and one
\* user-state update; it has an outcome, a returned value or one thrown
\* error, exactly when it has ended; the validator's loop runs over at most
\* five actions
BoundedInvocation ==
    /\ CallsTo("generateAIResponse") =< 3
    /\ CallsTo("createFromAI") =< 1
    /\ CallsTo("incrementActiveSeries") =< 1
    /\ pc = "done" <=> outcome.kind \in {"returned", "threw"}
    /\ pc # "done" => outcome.kind = "none"
    /\ outcome.kind = "threw" => Cardinality(Where("throw", "generateAIResponse")
                                            \cup Where("throw", "createFromAI")
                                            \cup Where("throw", "incrementActiveSeries")) =< 1
    /\ LoopEntered(parsed) => Len(Get(parsed, "actions").v) =< 5

\* C35: with every awaited collaborator call settling in the end, an
\* invocation of createHabitSeries that is at an await ends; it ends with
\* one outcome, a returned DTO or one thrown error, which stays its outcome;
\* it makes at most three AI calls, one persistence call and one user-state
\* update, and the validator's loop runs over at most five actions.
C35_Terminates ==
    /\ []BoundedInvocation
    /\ [][(pc = "done" /\ inv' = inv) => (pc' = "done" /\ outcome' = outcome)]_vars
    /\ (pc \notin {"idle", "done"}) ~> (pc = "done")

\* an invocation ended with its DTO after three AI calls, one persistence
\* call and one user-state update
C35_Witness ==
    /\ pc = "done"
    /\ outcome.kind = "returned"
    /\ CallsTo("generateAIResponse") = 3
    /\ CallsTo("createFromAI") = 1
    /\ CallsTo("incrementActiveSeries") = 1
    /\ Len(Get(parsed, "actions").v) >= 3

===========================================================================
